---- MODULE Spec2Model ----
(***************************************************************************)
(* yl: the inline-directive engine (src/config/inline.rs), the directive    *)
(* parser (src/parser/comments.rs) and the lint orchestrator                *)
(* (src/linter/engine.rs) as a state machine.                               *)
(*                                                                          *)
(* A file content is a sequence of lines plus a flag for the final '\n'.    *)
(* A line is the lexical view the code takes of it:                         *)
(*   width   - line.chars().count()                                         *)
(*   trail   - byte offset of the first trailing whitespace char, -1 if the *)
(*             line does not end in whitespace                              *)
(*   spaces  - whether the text before any '#' contains a ' ' after         *)
(*             trim_start                                                   *)
(*   comment - the substring from the first '#': hash (there is a '#'),     *)
(*             yl (it reads "#\s*yl:"), verb (the word after "yl:", as a    *)
(*             sequence of fragments), args (the ','-separated segments of  *)
(*             the text after the verb and whitespace)                      *)
(* A segment of args reads  name[.key][=val].                               *)
(***************************************************************************)
EXTENDS Integers, Sequences, FiniteSets, TLC

VARIABLES
    content,        \* the content handed to lint_content / process_file
    config,         \* Linter.config: the base configuration
    pc,             \* position in lint_content
    line_number,    \* process_file: number of the line processed last
    inline_config,  \* the InlineConfigManager of this file
    order,          \* the rules the registry iteration has handed out so far
    all_problems,   \* lint_content: all_problems
    result,         \* the Result lint_content returned
    rules_run,      \* the rules that lint_content found enabled and went on to run
    earlier_calls,  \* process_file calls made on the manager before the current one
    left_behind,    \* whether an earlier call left directives, overrides or disables
    paths,          \* lint_paths: the paths it is given
    fs,             \* the files under those paths: what reading each one gives
    file_paths,     \* lint_paths: file_paths
    outcomes,       \* lint_files_parallel: what the closure returned, by position
    saved_error,    \* collect into Result: the error that stops the collection
    results,        \* the Result lint_paths returned
    compared,       \* Problem::cmp and Problem::eq: the comparison made last
    fixed_content,  \* fix_problems: fixed_content
    pending,        \* fix_problems: the Problems still to fix, in the order of its loops
    fixing,         \* fix_problems: the Problem fixed last and the line found at its place
    document_map,   \* YlLanguageServer.document_map, for one Url
    handlers,       \* the notifications about this Url that arrived: each handler's position
    published       \* the diagnostics that publish_diagnostics sent last for this Url

\* the state of one lint_content / process_file
lint_vars == <<content, line_number, inline_config, order, all_problems, result, rules_run>>

\* the state of one lint_paths
batch_vars == <<paths, fs, file_paths, outcomes, saved_error, results>>

\* the use of the manager before the current process_file
reuse_vars == <<earlier_calls, left_behind>>

\* the state of a comparison of Problems
cmp_vars == <<compared>>

\* the state of one fix_problems
fix_vars == <<fixed_content, pending, fixing>>

\* the state of the language server
lsp_vars == <<document_map, handlers, published>>

\* the state of what runs apart from the linter
more_vars == <<cmp_vars, fix_vars, lsp_vars>>

vars == <<config, pc, lint_vars, reuse_vars, batch_vars, more_vars>>

\* ------------------------------------------------------------------ bounds

MaxLines == 2

MaxInlineLines == 3

\* process_file calls on one manager after the first
MaxCalls == 2

\* paths given to lint_paths
MaxPaths == 2

\* lines of a content handed to fix_problems
MaxFixLines == 4

\* notifications about one Url that the language server receives
MaxMessages == 4

\* ------------------------------------------------------------ small helpers

EmptyMap == [k \in {} |-> {}]

Min(S) == CHOOSE x \in S : \A y \in S : x <= y

Max(S) == CHOOSE x \in S : \A y \in S : x >= y

IsPrefix(a, t) == Len(a) <= Len(t) /\ SubSeq(t, 1, Len(a)) = a

\* HashMap::entry(k).or_default() / or_insert_with(d)
Entry(f, k, d) == IF k \in DOMAIN f THEN f ELSE (k :> d) @@ f

\* --------------------------------------------------------- Level, Problem

Levels == {"Info", "Warning", "Error"}

\* derive(PartialOrd, Ord) on Level: declaration order
LevelRank(l) == CASE l = "Info" -> 0 [] l = "Warning" -> 1 [] l = "Error" -> 2

\* Problem::new: suggestion None is <<>>
Problem_new(line, column, level, rule, message) ==
    [line |-> line, column |-> column, level |-> level, rule |-> rule,
     message |-> message, suggestion |-> <<>>]

\* Ord for Problem: line, then column, then level; -1 Less, 0 Equal, 1 Greater
Problem_cmp(p, q) ==
    IF p.line # q.line THEN (IF p.line < q.line THEN -1 ELSE 1)
    ELSE IF p.column # q.column THEN (IF p.column < q.column THEN -1 ELSE 1)
    ELSE IF LevelRank(p.level) # LevelRank(q.level)
         THEN (IF LevelRank(p.level) < LevelRank(q.level) THEN -1 ELSE 1)
    ELSE 0

\* derive(PartialEq, Eq) on Problem: every field is compared
Problem_eq(p, q) ==
    /\ p.line = q.line
    /\ p.column = q.column
    /\ p.level = q.level
    /\ p.rule = q.rule
    /\ p.message = q.message
    /\ p.suggestion = q.suggestion

\* ------------------------------------------------ ConfigValue, RuleConfig

ConfigValue_Bool(b) == [t |-> "Bool", b |-> b, i |-> 0, s |-> ""]
ConfigValue_Int(i) == [t |-> "Int", b |-> FALSE, i |-> i, s |-> ""]
ConfigValue_String(s) == [t |-> "String", b |-> FALSE, i |-> 0, s |-> s]

RuleConfig_new(enabled, level) == [enabled |-> enabled, level |-> level, params |-> EmptyMap]

RuleConfig_default == RuleConfig_new(TRUE, "Error")

set_param(cfg, key, value) == [cfg EXCEPT !.params = (key :> value) @@ cfg.params]

\* Option<i64>: [some, i]
get_int(cfg, key) ==
    IF key \in DOMAIN cfg.params /\ cfg.params[key].t = "Int"
    THEN [some |-> TRUE, i |-> cfg.params[key].i]
    ELSE [some |-> FALSE, i |-> 0]

\* Option<bool>: [some, b]
get_bool(cfg, key) ==
    IF key \in DOMAIN cfg.params /\ cfg.params[key].t = "Bool"
    THEN [some |-> TRUE, b |-> cfg.params[key].b]
    ELSE [some |-> FALSE, b |-> FALSE]

\* ------------------------------------------------------- directive parser

NoDirective ==
    [type |-> "None", rules |-> <<>>, scope |-> "", rule |-> "", params |-> EmptyMap]

Directive_Disable(rules, scope) ==
    [type |-> "Disable", rules |-> rules, scope |-> scope, rule |-> "", params |-> EmptyMap]
Directive_DisableLine(rules) ==
    [type |-> "DisableLine", rules |-> rules, scope |-> "", rule |-> "", params |-> EmptyMap]
Directive_Enable(rules, scope) ==
    [type |-> "Enable", rules |-> rules, scope |-> scope, rule |-> "", params |-> EmptyMap]
Directive_Set(rule, params) ==
    [type |-> "Set", rules |-> <<>>, scope |-> "", rule |-> rule, params |-> params]
Directive_Config(rule, params) ==
    [type |-> "Config", rules |-> <<>>, scope |-> "", rule |-> rule, params |-> params]
Directive_IgnoreFile ==
    [type |-> "IgnoreFile", rules |-> <<>>, scope |-> "", rule |-> "", params |-> EmptyMap]
Directive_IgnoreSection(rules) ==
    [type |-> "IgnoreSection", rules |-> rules, scope |-> "", rule |-> "", params |-> EmptyMap]

\* Result<Option<Directive>>
Parsed(d) == [ok |-> TRUE, some |-> TRUE, directive |-> d]
ParsedNone == [ok |-> TRUE, some |-> FALSE, directive |-> NoDirective]
ParseErr == [ok |-> FALSE, some |-> FALSE, directive |-> NoDirective]

\* the alternation of directive_regex, in its written (leftmost-first) order
directive_regex ==
    << <<"disable", "-line">>, <<"ignore", "-file">>, <<"ignore", "-section">>,
       <<"disable">>, <<"enable">>, <<"config">>, <<"set">> >>

\* directive_regex.captures(comment): group 1 is the first alternative that is a
\* prefix of the verb; group 2, (?:\s+(.+))?, needs whitespace right after it,
\* so it is empty when more characters are glued to the matched keyword
captures(comment) ==
    LET hits == {i \in 1..Len(directive_regex) : IsPrefix(directive_regex[i], comment.verb)}
    IN  IF ~comment.yl \/ hits = {}
        THEN [matched |-> FALSE, directive_type |-> <<>>, args |-> <<>>]
        ELSE LET kw == directive_regex[Min(hits)]
             IN  [matched |-> TRUE, directive_type |-> kw,
                  args |-> IF Len(comment.verb) > Len(kw) THEN <<>> ELSE comment.args]

\* split(','), trim, drop empty tokens (a list token is a segment's name)
parse_rule_list(args) ==
    LET kept == SelectSeq(args, LAMBDA seg : seg.name # "")
    IN  [i \in 1..Len(kept) |-> kept[i].name]

parse_disable(args, scope) ==
    LET rules == IF args = <<>> THEN <<>> ELSE parse_rule_list(args)
    IN  Parsed(IF scope = "Line" THEN Directive_DisableLine(rules)
               ELSE Directive_Disable(rules, scope))

parse_enable(args, scope) ==
    LET rules == IF args = <<>> THEN <<>> ELSE parse_rule_list(args)
    IN  Parsed(Directive_Enable(rules, scope))

\* param_regex ([a-zA-Z0-9_-]+)\.([a-zA-Z0-9_-]+)=([^\s,]+) on one segment
param_regex(seg) == seg.name # "" /\ seg.dot /\ seg.key # "" /\ seg.eq /\ seg.val # ""

\* a parse_set that, like parse_config, passes over arguments without the shape
parse_set_lenient(args) ==
    LET hits == {i \in 1..Len(args) : param_regex(args[i])}
    IN  IF hits = {} THEN ParsedNone
        ELSE LET seg == args[Min(hits)]
             IN  Parsed(Directive_Set(seg.name, (seg.key :> seg.val)))

\* the leftmost match of param_regex gives the one rule/param/value
parse_set(args) ==
    LET hits == {i \in 1..Len(args) : param_regex(args[i])}
    IN  IF hits = {} THEN ParseErr
        ELSE LET seg == args[Min(hits)]
             IN  Parsed(Directive_Set(seg.name, (seg.key :> seg.val)))

\* the param segments of a config directive: a segment without '=' is skipped,
\* a later segment with the same key overwrites an earlier one
RECURSIVE config_params(_)
config_params(segs) ==
    IF segs = <<>> THEN EmptyMap
    ELSE LET before == config_params(SubSeq(segs, 1, Len(segs) - 1))
             seg == segs[Len(segs)]
         IN  IF seg.eq THEN (seg.name :> seg.val) @@ before ELSE before

\* args[1] is the text before the first ' ', the rest the ','-separated
\* segments after it
parse_config(args) ==
    LET rule == IF args = <<>> THEN "" ELSE args[1].name
        params == IF Len(args) > 1 THEN config_params(Tail(args)) ELSE EmptyMap
    IN  Parsed(Directive_Config(rule, params))

parse_ignore_section(args) ==
    LET rules == IF args = <<>> THEN <<>> ELSE parse_rule_list(args)
    IN  Parsed(Directive_IgnoreSection(rules))

parse_directive(comment) ==
    LET c == captures(comment)
    IN  IF ~c.matched THEN ParsedNone
        ELSE CASE c.directive_type = <<"disable">> -> parse_disable(c.args, "Block")
               [] c.directive_type = <<"disable", "-line">> -> parse_disable(c.args, "Line")
               [] c.directive_type = <<"enable">> -> parse_enable(c.args, "Block")
               [] c.directive_type = <<"set">> -> parse_set(c.args)
               [] c.directive_type = <<"config">> -> parse_config(c.args)
               [] c.directive_type = <<"ignore", "-file">> -> Parsed(Directive_IgnoreFile)
               [] c.directive_type = <<"ignore", "-section">> -> parse_ignore_section(c.args)
               [] OTHER -> ParsedNone

\* --------------------------------------------------- InlineConfigManager

InlineConfigManager_new ==
    [directives |-> EmptyMap, active_configs |-> EmptyMap, disabled_rules |-> {},
     line_disabled_rules |-> EmptyMap, file_ignored |-> FALSE,
     current_section_rules |-> {}]

\* a reset that leaves the overrides in place
reset_keep_configs(m) ==
    [directives |-> EmptyMap, active_configs |-> m.active_configs, disabled_rules |-> {},
     line_disabled_rules |-> EmptyMap, file_ignored |-> FALSE,
     current_section_rules |-> {}]

reset(m) ==
    [directives |-> EmptyMap, active_configs |-> EmptyMap, disabled_rules |-> {},
     line_disabled_rules |-> EmptyMap, file_ignored |-> FALSE,
     current_section_rules |-> {}]

\* str::parse::<i64> on the numerals this model writes
parse_i64(value) ==
    CASE value = "0" -> [ok |-> TRUE, i |-> 0]
      [] value = "50" -> [ok |-> TRUE, i |-> 50]
      [] value = "120" -> [ok |-> TRUE, i |-> 120]
      [] OTHER -> [ok |-> FALSE, i |-> 0]

\* boolean first, then integer, else the string itself
parse_config_value(value) ==
    IF value = "true" THEN ConfigValue_Bool(TRUE)
    ELSE IF value = "false" THEN ConfigValue_Bool(FALSE)
    ELSE IF parse_i64(value).ok THEN ConfigValue_Int(parse_i64(value).i)
    ELSE ConfigValue_String(value)

Range(seq) == {seq[i] : i \in DOMAIN seq}

\* a Disable arm that puts the rules it is given in the place of the set
disable_into_replace(set, rules) == IF rules = <<>> THEN {"*"} ELSE Range(rules)

\* the Disable arm on one of the two block sets: no rules clears the set and
\* inserts "*", a rule list inserts each rule
disable_into(set, rules) == IF rules = <<>> THEN {"*"} ELSE set \cup Range(rules)

\* Set and Config arms that keep the value a param already has
merge_params_keep(m, rule, params) ==
    LET configs == Entry(m.active_configs, rule, RuleConfig_default)
        written == [k \in DOMAIN params |-> parse_config_value(params[k])]
    IN  [m EXCEPT !.active_configs =
            [configs EXCEPT ![rule].params = configs[rule].params @@ written]]

\* the Set and Config arms: every param of the directive is coerced and written
\* into the rule's override, created as RuleConfig::default when absent
merge_params(m, rule, params) ==
    LET configs == Entry(m.active_configs, rule, RuleConfig_default)
        written == [k \in DOMAIN params |-> parse_config_value(params[k])]
    IN  [m EXCEPT !.active_configs =
            [configs EXCEPT ![rule].params = written @@ configs[rule].params]]

\* a DisableLine arm that keys the rules to the line after the directive
apply_DisableLine_next(m, _line_number, rules) ==
    LET lines == Entry(m.line_disabled_rules, _line_number + 1, {})
    IN  [m EXCEPT !.line_disabled_rules =
            [lines EXCEPT ![_line_number + 1] =
                IF rules = <<>> THEN @ \cup {"*"} ELSE @ \cup Range(rules)]]

\* the DisableLine arm: the rules go into the set kept for the directive's line
apply_DisableLine(m, _line_number, rules) ==
    LET lines == Entry(m.line_disabled_rules, _line_number, {})
    IN  [m EXCEPT !.line_disabled_rules =
            [lines EXCEPT ![_line_number] =
                IF rules = <<>> THEN @ \cup {"*"} ELSE @ \cup Range(rules)]]

\* an Enable arm that leaves the section set alone
apply_Enable_block_only(m, rules) ==
    IF rules = <<>>
    THEN [m EXCEPT !.disabled_rules = {}]
    ELSE [m EXCEPT !.disabled_rules = @ \ Range(rules)]

\* an Enable arm that takes the "*" out with the rules it is given
apply_Enable_sentinel(m, rules) ==
    IF rules = <<>>
    THEN [m EXCEPT !.disabled_rules = {}, !.current_section_rules = {}]
    ELSE [m EXCEPT !.disabled_rules = @ \ (Range(rules) \cup {"*"}),
                   !.current_section_rules = @ \ (Range(rules) \cup {"*"})]

\* an Enable arm that, without rules, clears the line sets too
apply_Enable_lines(m, rules) ==
    IF rules = <<>>
    THEN [m EXCEPT !.disabled_rules = {}, !.current_section_rules = {},
                   !.line_disabled_rules = EmptyMap]
    ELSE [m EXCEPT !.disabled_rules = @ \ Range(rules),
                   !.current_section_rules = @ \ Range(rules)]

\* an Enable arm that acts only when no rule is listed
apply_Enable_all_only(m, rules) ==
    IF rules = <<>>
    THEN [m EXCEPT !.disabled_rules = {}, !.current_section_rules = {}]
    ELSE m

\* the Enable arm: no rules clears both sets, a rule list removes each rule
apply_Enable(m, rules) ==
    IF rules = <<>>
    THEN [m EXCEPT !.disabled_rules = {}, !.current_section_rules = {}]
    ELSE [m EXCEPT !.disabled_rules = @ \ Range(rules),
                   !.current_section_rules = @ \ Range(rules)]

\* the IgnoreFile arm
apply_IgnoreFile(m) == [m EXCEPT !.file_ignored = TRUE]

\* Result<()> with the manager as it is left: [ok, m]
apply_directive(m, _line_number, directive) ==
    CASE directive.type = "Disable" ->
            IF directive.scope = "Line" THEN [ok |-> FALSE, m |-> m]
            ELSE IF directive.scope \in {"Block", "File"}
            THEN [ok |-> TRUE,
                  m |-> [m EXCEPT !.disabled_rules = disable_into(@, directive.rules)]]
            ELSE [ok |-> TRUE,
                  m |-> [m EXCEPT !.current_section_rules = disable_into(@, directive.rules)]]
      [] directive.type = "DisableLine" ->
            [ok |-> TRUE, m |-> apply_DisableLine(m, _line_number, directive.rules)]
      [] directive.type = "Enable" ->
            [ok |-> TRUE, m |-> apply_Enable(m, directive.rules)]
      [] directive.type = "Set" ->
            [ok |-> TRUE, m |-> merge_params(m, directive.rule, directive.params)]
      [] directive.type = "Config" ->
            [ok |-> TRUE, m |-> merge_params(m, directive.rule, directive.params)]
      [] directive.type = "IgnoreFile" ->
            [ok |-> TRUE, m |-> apply_IgnoreFile(m)]
      [] directive.type = "IgnoreSection" ->
            [ok |-> TRUE,
             m |-> [m EXCEPT !.current_section_rules = disable_into(@, directive.rules)]]

\* one iteration of process_file's loop, on line `n` of the content: [ok, m]
process_line(m, n, line) ==
    IF ~line.comment.hash THEN [ok |-> TRUE, m |-> m]
    ELSE LET parsed == parse_directive(line.comment)
         IN  IF ~parsed.ok THEN [ok |-> FALSE, m |-> m]
             ELSE IF ~parsed.some THEN [ok |-> TRUE, m |-> m]
             ELSE LET entries == Entry(m.directives, n, <<>>)
                      recorded == [m EXCEPT !.directives =
                                      [entries EXCEPT ![n] = Append(@, parsed.directive)]]
                  IN  apply_directive(recorded, n, parsed.directive)

\* process_file's loop from line k on: stops at the first failing line
RECURSIVE process_lines(_, _, _)
process_lines(m, lines, k) ==
    IF k > Len(lines) THEN [ok |-> TRUE, m |-> m]
    ELSE LET step == process_line(m, k, lines[k])
         IN  IF ~step.ok THEN step ELSE process_lines(step.m, lines, k + 1)

process_file(m, c) == process_lines(reset(m), c.lines, 1)

is_file_ignored(m) == m.file_ignored

\* an is_rule_disabled that does not look at the section set
is_rule_disabled_no_section(m, rule_id, line) ==
    IF m.file_ignored THEN TRUE
    ELSE IF line \in DOMAIN m.line_disabled_rules
            /\ ("*" \in m.line_disabled_rules[line] \/ rule_id \in m.line_disabled_rules[line])
    THEN TRUE
    ELSE IF "*" \in m.disabled_rules \/ rule_id \in m.disabled_rules THEN TRUE
    ELSE FALSE

is_rule_disabled(m, rule_id, line) ==
    IF m.file_ignored THEN TRUE
    ELSE IF line \in DOMAIN m.line_disabled_rules
            /\ ("*" \in m.line_disabled_rules[line] \/ rule_id \in m.line_disabled_rules[line])
    THEN TRUE
    ELSE IF "*" \in m.disabled_rules \/ rule_id \in m.disabled_rules THEN TRUE
    ELSE IF "*" \in m.current_section_rules \/ rule_id \in m.current_section_rules THEN TRUE
    ELSE FALSE

\* Option<&RuleConfig>: [some, config]
inline_get_rule_config(m, rule_id, _line) ==
    IF rule_id \in DOMAIN m.active_configs
    THEN [some |-> TRUE, config |-> m.active_configs[rule_id]]
    ELSE [some |-> FALSE, config |-> RuleConfig_default]

\* ------------------------------------------------------------------ rules

\* the rules of the registry that the model runs
registry_rules == {"line-length", "trailing-spaces", "new-line-at-end-of-file"}

default_max == 80

\* Rule::default_config of each rule
default_config(rule_id) ==
    CASE rule_id = "line-length" ->
            set_param(set_param(RuleConfig_new(TRUE, "Error"), "max", ConfigValue_Int(default_max)),
                      "allow-non-breakable-words", ConfigValue_Bool(TRUE))
      [] rule_id = "trailing-spaces" -> RuleConfig_new(TRUE, "Error")
      [] rule_id = "new-line-at-end-of-file" -> RuleConfig_new(FALSE, "Error")
      [] OTHER -> RuleConfig_default

\* RuleRegistry::with_default_rules: the built-in rules as they are registered
with_default_rules ==
    << "line-length", "trailing-spaces", "empty-lines", "indentation",
       "new-line-at-end-of-file",
       "key-duplicates", "document-structure", "anchors", "yaml-syntax", "comments",
       "brackets", "braces", "colons", "commas", "hyphens",
       "truthy", "quoted-strings", "key-ordering", "float-values", "octal-values" >>

\* a table in which the two style rules alone are enabled
default_config_enabled_style(rule_id) == rule_id \in {"line-length", "trailing-spaces"}

\* the `enabled` that the default_config of each built-in rule hands to
\* RuleConfig::new
default_config_enabled(rule_id) ==
    rule_id \in {"line-length", "trailing-spaces", "yaml-syntax"}

\* a validate_config that rejects a negative max only
validate_config_negative(rule_id, cfg) ==
    IF rule_id = "line-length"
    THEN ~(get_int(cfg, "max").some /\ get_int(cfg, "max").i < 0)
    ELSE TRUE

\* Rule::validate_config: TRUE is Ok(())
validate_config(rule_id, cfg) ==
    IF rule_id = "line-length"
    THEN ~(get_int(cfg, "max").some /\ get_int(cfg, "max").i <= 0)
    ELSE TRUE

get_max_length(cfg) ==
    IF get_int(cfg, "max").some /\ get_int(cfg, "max").i > 0
    THEN get_int(cfg, "max").i
    ELSE default_max

allow_non_breakable_words(cfg) ==
    IF get_bool(cfg, "allow-non-breakable-words").some
    THEN get_bool(cfg, "allow-non-breakable-words").b
    ELSE TRUE

\* an is_non_breakable_line that looks for the space at the line's end only
is_non_breakable_line_end(line) == ~(line.trail > 0)

\* the text examined is the comment without its '#' prefix when the line has a
\* '#', the line without its leading whitespace otherwise; trailing whitespace
\* is part of either unless the line is whitespace only
is_non_breakable_line(line) ==
    LET inner == IF line.comment.hash THEN line.comment.args # <<>> ELSE line.spaces
    IN  ~(inner \/ line.trail > 0)

has_trailing_whitespace(line) == line.width > 0 /\ line.trail >= 0

\* Option<usize>: [some, pos]
trailing_whitespace_start(line) ==
    IF ~has_trailing_whitespace(line) THEN [some |-> FALSE, pos |-> 0]
    ELSE IF line.trail < line.width THEN [some |-> TRUE, pos |-> line.trail]
    ELSE [some |-> FALSE, pos |-> 0]

Message(text, a, b) == [text |-> text, a |-> a, b |-> b]

\* the Problems pushed line by line, in line order
RECURSIVE Flatten(_)
Flatten(pushed) == IF pushed = <<>> THEN <<>> ELSE Head(pushed) \o Flatten(Tail(pushed))

LineLengthRule_check(c, cfg) ==
    IF ~cfg.enabled THEN <<>>
    ELSE LET max_length == get_max_length(cfg)
             allow_non_breakable == allow_non_breakable_words(cfg)
         IN  Flatten([i \in 1..Len(c.lines) |->
                 IF c.lines[i].width > max_length
                    /\ ~(allow_non_breakable /\ is_non_breakable_line(c.lines[i]))
                 THEN <<Problem_new(i, max_length + 1, cfg.level, "line-length",
                                    Message("line too long", c.lines[i].width, max_length))>>
                 ELSE <<>>])

TrailingSpacesRule_check(c, cfg) ==
    IF ~cfg.enabled THEN <<>>
    ELSE Flatten([i \in 1..Len(c.lines) |->
             IF has_trailing_whitespace(c.lines[i]) /\ trailing_whitespace_start(c.lines[i]).some
             THEN <<Problem_new(i, trailing_whitespace_start(c.lines[i]).pos + 1, cfg.level,
                                "trailing-spaces", Message("trailing whitespace", 0, 0))>>
             ELSE <<>>])

\* content.is_empty() is no line and no final newline
NewLineAtEndOfFileRule_check(c, cfg) ==
    IF ~cfg.enabled THEN <<>>
    ELSE IF ~(c.lines = <<>> /\ ~c.eol) /\ ~c.eol
    THEN LET line_count == Len(c.lines)
             len == IF line_count = 0 THEN 0 ELSE c.lines[line_count].width
         IN  <<Problem_new(line_count, len + 1, cfg.level, "new-line-at-end-of-file",
                           Message("missing newline at end of file", 0, 0))>>
    ELSE <<>>

\* the contents of the model parse as YAML and show none of the issues that
\* check_syntax_issues looks for
YamlSyntaxRule_check(c, cfg) == <<>>

\* Rule::check: no rule of the registry returns Err
check(rule_id, c, cfg) ==
    CASE rule_id = "line-length" -> LineLengthRule_check(c, cfg)
      [] rule_id = "trailing-spaces" -> TrailingSpacesRule_check(c, cfg)
      [] rule_id = "new-line-at-end-of-file" -> NewLineAtEndOfFileRule_check(c, cfg)
      [] rule_id = "yaml-syntax" -> YamlSyntaxRule_check(c, cfg)

\* ----------------------------------------------------------------- Config

\* a get_rule_config that fills the explicit entry with the default's params
Config_get_rule_config_merged(cfg, rule_id) ==
    IF rule_id \in DOMAIN cfg.rules
    THEN IF rule_id \in registry_rules
         THEN [cfg.rules[rule_id] EXCEPT !.params = @ @@ default_config(rule_id).params]
         ELSE cfg.rules[rule_id]
    ELSE IF rule_id \in registry_rules THEN default_config(rule_id)
    ELSE RuleConfig_default

\* Config::get_rule_config: the explicit entry, else the rule's default
Config_get_rule_config(cfg, rule_id) ==
    IF rule_id \in DOMAIN cfg.rules THEN cfg.rules[rule_id]
    ELSE IF rule_id \in registry_rules THEN default_config(rule_id)
    ELSE RuleConfig_default

\* a pattern of Config.ignore / Config.yaml_files. A path is its components, a
\* component its pieces ("a", ".yaml"); a pattern is the pieces of its text,
\* whether it holds a '*' and whether its text ends with '/'
Pattern(star, text, slash) == [star |-> star, text |-> text, slash |-> slash]

\* the text of the pattern is found somewhere in the path: what is_match of
\* the pattern with ".*" for '*' and what str::contains give
pattern_found(path, pattern) ==
    \E i \in DOMAIN path :
        \E j \in 1..Len(path[i]) :
            LET last == j + Len(pattern.text) - 1
            IN  /\ last <= Len(path[i])
                /\ SubSeq(path[i], j, last) = pattern.text
                /\ pattern.slash => (last = Len(path[i]) /\ i < Len(path))

\* str::ends_with
pattern_ends(path, pattern) ==
    /\ path # <<>>
    /\ ~pattern.slash
    /\ LET name == path[Len(path)]
       IN  /\ Len(pattern.text) <= Len(name)
           /\ SubSeq(name, Len(name) - Len(pattern.text) + 1, Len(name)) = pattern.text

\* Config::is_file_ignored
Config_is_file_ignored(cfg, path) ==
    \E k \in DOMAIN cfg.ignore :
        IF cfg.ignore[k].star THEN pattern_found(path, cfg.ignore[k])
        ELSE pattern_found(path, cfg.ignore[k])

\* Config::is_yaml_file
Config_is_yaml_file(cfg, path) ==
    \E k \in DOMAIN cfg.yaml_files :
        IF cfg.yaml_files[k].star THEN pattern_found(path, cfg.yaml_files[k])
        ELSE pattern_ends(path, cfg.yaml_files[k])

\* the rules of Config::default with the whole registry: an entry for every
\* built-in rule, with the params of the three rules that the model checks with
Config_default_rules ==
    [rule_id \in Range(with_default_rules) |->
        IF rule_id \in registry_rules THEN default_config(rule_id)
        ELSE RuleConfig_new(default_config_enabled(rule_id), "Error")]

\* "*.generated.yaml", "*.generated.yml", ".git/**", "node_modules/**"
default_ignore ==
    << Pattern(TRUE, <<".generated", ".yaml">>, FALSE),
       Pattern(TRUE, <<".generated", ".yml">>, FALSE),
       Pattern(TRUE, <<".git">>, TRUE),
       Pattern(TRUE, <<"node_modules">>, TRUE) >>

\* "*.yaml", "*.yml", ".yamllint"
default_yaml_files ==
    << Pattern(TRUE, <<".yaml">>, FALSE),
       Pattern(TRUE, <<".yml">>, FALSE),
       Pattern(FALSE, <<".yamllint">>, FALSE) >>

\* Config::default: an entry with default_config for every registry rule
Config_default ==
    [rules |-> [r \in registry_rules |-> default_config(r)],
     ignore |-> default_ignore,
     yaml_files |-> default_yaml_files]

\* ----------------------------------------------------------------- Linter

\* a sort that leaves the list as accumulated
sort_unsorted(problems) == problems

\* Vec::sort: the stable sort by Problem_cmp
sort_insert(sorted, p) ==
    LET k == Cardinality({j \in 1..Len(sorted) : Problem_cmp(sorted[j], p) <= 0})
    IN  SubSeq(sorted, 1, k) \o <<p>> \o SubSeq(sorted, k + 1, Len(sorted))

RECURSIVE sort(_)
sort(problems) ==
    IF problems = <<>> THEN <<>>
    ELSE sort_insert(sort(SubSeq(problems, 1, Len(problems) - 1)), problems[Len(problems)])

\* a merge that also takes an inline "enabled" param as the rule's flag
resolve_rule_config_flag(cfg, m, rule_id) ==
    LET rule_config == Config_get_rule_config(cfg, rule_id)
        inline_rule_config == inline_get_rule_config(m, rule_id, 0)
        params == inline_rule_config.config.params
    IN  IF inline_rule_config.some
        THEN [rule_config EXCEPT
                !.params = params @@ @,
                !.enabled = IF "enabled" \in DOMAIN params /\ params["enabled"].t = "Bool"
                            THEN params["enabled"].b ELSE @]
        ELSE rule_config

\* lint_content, lines 63-71: the base config with the inline params on top
resolve_rule_config(cfg, m, rule_id) ==
    LET rule_config == Config_get_rule_config(cfg, rule_id)
        inline_rule_config == inline_get_rule_config(m, rule_id, 0)
    IN  IF inline_rule_config.some
        THEN [rule_config EXCEPT !.params = inline_rule_config.config.params @@ @]
        ELSE rule_config

\* lint_content, lines 86-89
filter_problems(m, problems) ==
    SelectSeq(problems, LAMBDA p : ~is_rule_disabled(m, p.rule, p.line))

\* the path lint_content is given for the content
file_path == << <<"test", ".yaml">> >>

\* the message of an error does not interpolate a file path
NoPath == <<>>

\* Result<Vec<Problem>>: an error is its kind with the rule id and the file path
\* that its message interpolates
Ok(problems) == [ok |-> TRUE, problems |-> problems, err |-> "", rule |-> "", path |-> NoPath]
Err(kind, rule_id, path) ==
    [ok |-> FALSE, problems |-> <<>>, err |-> kind, rule |-> rule_id, path |-> path]
Pending == [ok |-> FALSE, problems |-> <<>>, err |-> "pending", rule |-> "", path |-> NoPath]

\* an iteration that validates the config before it looks at `enabled`
run_rule_validate_first(c, cfg, m, problems, rule_id) ==
    LET rule_config == resolve_rule_config(cfg, m, rule_id)
    IN  IF ~validate_config(rule_id, rule_config)
        THEN [failed |-> TRUE, all_problems |-> problems]
        ELSE IF ~rule_config.enabled
        THEN [failed |-> FALSE, all_problems |-> problems]
        ELSE [failed |-> FALSE,
              all_problems |-> problems \o filter_problems(m, check(rule_id, c, rule_config))]

\* an iteration that keeps the Problems of the rule it ran and drops the
\* ones accumulated before
run_rule_overwrite(c, cfg, m, problems, rule_id) ==
    LET rule_config == resolve_rule_config(cfg, m, rule_id)
    IN  IF ~rule_config.enabled
        THEN [failed |-> FALSE, all_problems |-> problems]
        ELSE IF ~validate_config(rule_id, rule_config)
        THEN [failed |-> TRUE, all_problems |-> problems]
        ELSE [failed |-> FALSE,
              all_problems |-> filter_problems(m, check(rule_id, c, rule_config))]

\* one iteration of lint_content's loop over the registry's rules:
\* [failed, all_problems, rule]
run_rule(c, cfg, m, problems, rule_id) ==
    LET rule_config == resolve_rule_config(cfg, m, rule_id)
    IN  IF ~rule_config.enabled
        THEN [failed |-> FALSE, all_problems |-> problems]
        ELSE IF ~validate_config(rule_id, rule_config)
        THEN [failed |-> TRUE, all_problems |-> problems]
        ELSE [failed |-> FALSE,
              all_problems |-> problems \o filter_problems(m, check(rule_id, c, rule_config))]

\* the loop over the rules in the order `ord` from its k-th rule on, then the sort
RECURSIVE run_rules(_, _, _, _, _, _)
run_rules(c, cfg, m, problems, ord, k) ==
    IF k > Len(ord) THEN Ok(sort(problems))
    ELSE LET step == run_rule(c, cfg, m, problems, ord[k])
         IN  IF step.failed THEN Err("InvalidConfiguration", ord[k], NoPath)
             ELSE run_rules(c, cfg, m, step.all_problems, ord, k + 1)

\* the orders in which a registry can hand out its rules
RegistryOrders ==
    {o \in [1..Cardinality(registry_rules) -> registry_rules] : Range(o) = registry_rules}

\* lint_content on a registry that hands out its rules in the order `ord`
lint_content(c, cfg, ord) ==
    LET processed == process_file(InlineConfigManager_new, c)
    IN  IF ~processed.ok THEN Err("DirectiveParse", "", NoPath)
        ELSE IF is_file_ignored(processed.m) THEN Ok(<<>>)
        ELSE run_rules(c, cfg, processed.m, <<>>, ord, 1)

\* ----------------------------------------------------------------- inputs

Seg(name, dot, key, eq, val) == [name |-> name, dot |-> dot, key |-> key, eq |-> eq, val |-> val]
RuleSeg(name) == Seg(name, FALSE, "", FALSE, "")
SetSeg(rule, key, val) == Seg(rule, TRUE, key, TRUE, val)
ParamSeg(key, val) == Seg(key, FALSE, "", TRUE, val)

NoComment == [hash |-> FALSE, yl |-> FALSE, verb |-> <<>>, args |-> <<>>]
Note == [hash |-> TRUE, yl |-> FALSE, verb |-> <<"note">>, args |-> <<>>]
Yl(verb, args) == [hash |-> TRUE, yl |-> TRUE, verb |-> verb, args |-> args]

Line(width, trail, spaces, comment) ==
    [width |-> width, trail |-> trail, spaces |-> spaces, comment |-> comment]

LL == "line-length"
TS == "trailing-spaces"
NL == "new-line-at-end-of-file"

\* the lines of the contents that lint_content is run on
LintLines ==
    { Line(60, -1, TRUE, NoComment),                                  \* short
      Line(95, -1, TRUE, NoComment),                                  \* too long
      Line(60, 57, TRUE, NoComment),                                  \* trailing spaces
      Line(82, 80, TRUE, NoComment),                                  \* 80 chars and 2 spaces
      Line(95, -1, FALSE, NoComment),                                 \* one long word
      Line(95, -1, TRUE, Yl(<<"disable">>, <<RuleSeg(LL)>>)),
      Line(82, 80, TRUE, Yl(<<"disable", "-line">>, <<>>)),
      Line(60, -1, TRUE, Yl(<<"ignore", "-file">>, <<>>)),
      Line(60, -1, TRUE, Yl(<<"set">>, <<RuleSeg("invalid-format")>>)),
      Line(95, -1, TRUE, Yl(<<"set">>, <<SetSeg(LL, "max", "120")>>)),
      Line(60, 57, TRUE, Yl(<<"set">>, <<SetSeg(LL, "max", "50")>>)),
      Line(60, -1, TRUE, Yl(<<"config">>, <<RuleSeg(LL), ParamSeg("max", "0")>>)),
      Line(60, -1, TRUE, Yl(<<"config">>,
          <<RuleSeg(LL), ParamSeg("allow-non-breakable-words", "false"),
            ParamSeg("enabled", "false")>>)),
      Line(60, 57, TRUE, Yl(<<"config">>,
          <<RuleSeg(NL), ParamSeg("enabled", "true"), ParamSeg("level", "warning")>>)) }

\* the comments of the contents that process_file is run on
InlineComments ==
    { NoComment,
      Note,
      Yl(<<"disable">>, <<RuleSeg(LL)>>),
      Yl(<<"disable">>, <<>>),
      Yl(<<"disable", "-line">>, <<RuleSeg(LL)>>),
      Yl(<<"disable", "-line">>, <<>>),
      Yl(<<"enable">>, <<RuleSeg(LL)>>),
      Yl(<<"enable">>, <<>>),
      Yl(<<"set">>, <<SetSeg(LL, "max", "50")>>),
      Yl(<<"set">>, <<RuleSeg("invalid-format")>>),
      Yl(<<"config">>, <<RuleSeg(LL), ParamSeg("max", "120"), RuleSeg("bogus"),
                         ParamSeg("allow-non-breakable-words", "false")>>),
      Yl(<<"set">>, <<SetSeg(TS, "max", "abc")>>),
      Yl(<<"ignore", "-file">>, <<>>),
      Yl(<<"ignore", "-section">>, <<RuleSeg(TS)>>),
      Yl(<<"disable", "d">>, <<RuleSeg(LL)>>),                       \* yl:disabled
      Yl(<<"set", "tings">>, <<>>) }                                  \* yl:settings

InlineLines == {Line(60, -1, TRUE, cm) : cm \in InlineComments}

SeqsUpTo(S, n) == UNION {[1..k -> S] : k \in 0..n}

\* every content has its lines; only a content with a line can end in '\n'
Contents(S, n) ==
    {c \in [lines : SeqsUpTo(S, n), eol : BOOLEAN] : c.lines = <<>> => ~c.eol}

\* a configuration with an entry for every rule; the one of line-length sets
\* max alone
Config_explicit ==
    [rules |-> (TS :> RuleConfig_new(TRUE, "Warning"))
            @@ (NL :> RuleConfig_new(TRUE, "Info"))
            @@ (LL :> set_param(RuleConfig_new(TRUE, "Warning"), "max", ConfigValue_Int(50))),
     ignore |-> default_ignore,
     yaml_files |-> default_yaml_files]

\* a configuration with one entry, for line-length, with a max that the rule
\* rejects; the other rules are left to their default_config
Config_invalid ==
    [rules |-> (LL :> set_param(RuleConfig_new(TRUE, "Error"), "max", ConfigValue_Int(0))),
     ignore |-> default_ignore,
     yaml_files |-> default_yaml_files]

\* a configuration with one entry, for line-length, that disables the rule and
\* has a max that the rule rejects
Config_disabled ==
    [rules |-> (LL :> set_param(RuleConfig_new(FALSE, "Error"), "max", ConfigValue_Int(0))),
     ignore |-> default_ignore,
     yaml_files |-> default_yaml_files]

Configs == {Config_default, Config_explicit, Config_invalid, Config_disabled}

\* Config::default()
Config_default_registry ==
    [rules |-> Config_default_rules, ignore |-> default_ignore, yaml_files |-> default_yaml_files]

\* the lines without a comment
PlainLines == {l \in LintLines : ~l.comment.hash}

\* the rule that a registry hands out after `rule_id`, when it hands them out
\* in the order of registration starting from any rule
next_registered(rule_id) ==
    LET i == CHOOSE k \in DOMAIN with_default_rules : with_default_rules[k] = rule_id
    IN  with_default_rules[(i % Len(with_default_rules)) + 1]

\* the comments of the contents that a manager is used again on
ReuseComments ==
    { NoComment,
      Yl(<<"disable">>, <<RuleSeg(LL)>>),
      Yl(<<"disable", "-line">>, <<RuleSeg(TS)>>),
      Yl(<<"set">>, <<SetSeg(LL, "max", "50")>>),
      Yl(<<"set">>, <<RuleSeg("invalid-format")>>),
      Yl(<<"ignore", "-file">>, <<>>),
      Yl(<<"ignore", "-section">>, <<RuleSeg(TS)>>) }

ReuseContents ==
    {c \in Contents({Line(60, -1, TRUE, cm) : cm \in ReuseComments}, MaxLines) : ~c.eol}

\* ------------------------------------------------------------- lint_paths

\* the paths of a directory tree: proj holds a.yaml, .git/x.yaml, notes.txt,
\* c.generated.yaml and sub/b.yml; nothing is at missing.yaml
P_proj == << <<"proj">> >>
P_a == << <<"proj">>, <<"a", ".yaml">> >>
P_git == << <<"proj">>, <<".git">> >>
P_x == << <<"proj">>, <<".git">>, <<"x", ".yaml">> >>
P_notes == << <<"proj">>, <<"notes", ".txt">> >>
P_gen == << <<"proj">>, <<"c", ".generated", ".yaml">> >>
P_sub == << <<"proj">>, <<"sub">> >>
P_b == << <<"proj">>, <<"sub">>, <<"b", ".yml">> >>
P_missing == << <<"missing", ".yaml">> >>

Directories == {P_proj, P_git, P_sub}

\* the entries of a directory, in the order the file system lists them
read_dir(dir) ==
    CASE dir = P_proj -> <<P_a, P_git, P_notes, P_gen, P_sub>>
      [] dir = P_git -> <<P_x>>
      [] dir = P_sub -> <<P_b>>

\* what std::fs::read_to_string gives for a file: its content, or an error
File(readable, c) == [readable |-> readable, content |-> c]

OneLine(line) == [lines |-> <<line>>, eol |-> TRUE]
CleanFile == File(TRUE, OneLine(Line(60, -1, TRUE, NoComment)))
TieFile == File(TRUE, OneLine(Line(82, 80, TRUE, NoComment)))
LongFile == File(TRUE, OneLine(Line(95, -1, TRUE, NoComment)))
BadFile == File(TRUE, OneLine(Line(60, -1, TRUE, Yl(<<"set">>, <<RuleSeg("invalid-format")>>))))
UnreadableFile == File(FALSE, OneLine(Line(60, -1, TRUE, NoComment)))

\* the regular files of the tree with what each one holds
FileSystems ==
    { (P_a :> a) @@ (P_b :> b) @@ (P_x :> BadFile) @@ (P_notes :> BadFile) @@ (P_gen :> TieFile) :
        a \in {CleanFile, TieFile, BadFile, UnreadableFile}, b \in {LongFile, BadFile} }

\* the paths lint_paths is given
PathInputs == {P_proj, P_sub, P_a, P_notes, P_gen, P_missing}

is_file(files, path) == path \in DOMAIN files
is_dir(path) == path \in Directories

\* a walk that does not descend into the directories of a directory
walk_flat(files, path) ==
    IF is_file(files, path) THEN <<path>>
    ELSE IF is_dir(path)
    THEN SelectSeq(read_dir(path), LAMBDA entry : is_file(files, entry))
    ELSE <<>>

\* WalkDir::new(path) filtered to regular files: depth first, each directory in
\* the order of its listing
RECURSIVE walk(_, _)
walk(files, path) ==
    IF is_file(files, path) THEN <<path>>
    ELSE IF is_dir(path)
    THEN Flatten([i \in DOMAIN read_dir(path) |-> walk(files, read_dir(path)[i])])
    ELSE <<>>

\* lint_paths lines 113-137 for one path: [ok, file_paths]
expand_path(cfg, files, path) ==
    IF is_file(files, path) THEN [ok |-> TRUE, file_paths |-> <<path>>]
    ELSE IF is_dir(path)
    THEN [ok |-> TRUE,
          file_paths |-> SelectSeq(walk(files, path), LAMBDA f :
              ~(Config_is_file_ignored(cfg, f) \/ ~Config_is_yaml_file(cfg, f)))]
    ELSE [ok |-> FALSE, file_paths |-> <<>>]

\* the loop over the paths from the k-th on: [ok, file_paths, path], path being
\* the one that does not exist when there is one
RECURSIVE expand(_, _, _, _, _)
expand(cfg, files, given, k, acc) ==
    IF k > Len(given) THEN [ok |-> TRUE, file_paths |-> acc, path |-> <<>>]
    ELSE LET one == expand_path(cfg, files, given[k])
         IN  IF ~one.ok THEN [ok |-> FALSE, file_paths |-> <<>>, path |-> given[k]]
             ELSE expand(cfg, files, given, k + 1, acc \o one.file_paths)

\* Linter::lint_file on a linter whose registry hands out its rules in `ord`
lint_file(cfg, files, path, ord) ==
    IF Config_is_file_ignored(cfg, path) THEN Ok(<<>>)
    ELSE IF ~Config_is_yaml_file(cfg, path) THEN Ok(<<>>)
    ELSE IF ~files[path].readable THEN Err("ReadFile", "", path)
    ELSE lint_content(files[path].content, cfg, ord)

\* Result<Vec<(PathBuf, Vec<Problem>)>>
BatchOk(entries) == [ok |-> TRUE, entries |-> entries, error |-> Pending]
BatchErr(error) == [ok |-> FALSE, entries |-> <<>>, error |-> error]
BatchPending == [ok |-> FALSE, entries |-> <<>>, error |-> Pending]

\* the error the collection into a Result keeps: Option<Err>
NoSavedError == [some |-> FALSE, error |-> Pending]
SavedError(error) == [some |-> TRUE, error |-> error]

\* a collect that returns the entries from the last file to the first
collect_reversed(given, returned, saved) ==
    IF saved.some THEN BatchErr(saved.error)
    ELSE BatchOk([i \in DOMAIN given |->
            [path |-> given[Len(given) + 1 - i], problems |-> returned[Len(given) + 1 - i].problems]])

\* a collect that returns the entries of the files that linted without error
collect_successes(given, returned, saved) ==
    LET linted == SelectSeq([i \in DOMAIN given |-> i], LAMBDA i : returned[i].ok)
    IN  BatchOk([n \in DOMAIN linted |->
            [path |-> given[linted[n]], problems |-> returned[linted[n]].problems]])

\* par_iter().map(..).collect::<Result<Vec<_>, _>>(): the saved error when
\* there is one, else the entries in the order of file_paths
collect(given, returned, saved) ==
    IF saved.some THEN BatchErr(saved.error)
    ELSE BatchOk([i \in DOMAIN given |-> [path |-> given[i], problems |-> returned[i].problems]])

\* no lint_paths is under way
NoBatch ==
    /\ paths = <<>>
    /\ fs = <<>>
    /\ file_paths = <<>>
    /\ outcomes = <<>>
    /\ saved_error = NoSavedError
    /\ results = BatchPending

\* ------------------------------------------------------------ the fix engine

\* str::trim().is_empty() of a line
is_blank(line) == line.width = 0 \/ line.trail = 0

\* str::trim_end of a line
trim_end(line) ==
    IF line.trail >= 0 THEN [line EXCEPT !.width = line.trail, !.trail = -1] ELSE line

\* config.get_int(key).unwrap_or(default)
get_int_or(cfg, key, default) ==
    IF get_int(cfg, key).some THEN get_int(cfg, key).i ELSE default

\* the number of blank lines in a row that end with line i
consecutive_empty(lines, i) ==
    i - Max({0} \cup {j \in 1..i : ~is_blank(lines[j])})

\* EmptyLinesRule::default_config
EmptyLinesRule_default_config ==
    set_param(set_param(set_param(RuleConfig_new(FALSE, "Error"),
        "max", ConfigValue_Int(2)), "max-start", ConfigValue_Int(0)), "max-end", ConfigValue_Int(1))

\* EmptyLinesRule::check
EmptyLinesRule_check(c, cfg) ==
    IF ~cfg.enabled \/ c.lines = <<>> THEN <<>>
    ELSE LET lines == c.lines
             n == Len(lines)
             max_empty == get_int_or(cfg, "max", 2)
             max_start == get_int_or(cfg, "max-start", 0)
             max_end == get_int_or(cfg, "max-end", 1)
             nonblank == {i \in 1..n : ~is_blank(lines[i])}
             start_empty_count == IF nonblank = {} THEN n ELSE Min(nonblank) - 1
             end_empty_count == IF nonblank = {} THEN n ELSE n - Max(nonblank)
         IN  (IF start_empty_count > max_start
              THEN <<Problem_new(1, 1, cfg.level, "empty-lines",
                        Message("too many blank lines at beginning of file",
                                start_empty_count, max_start))>>
              ELSE <<>>)
             \o (IF end_empty_count > max_end
                 THEN <<Problem_new(n, 1, cfg.level, "empty-lines",
                           Message("too many blank lines at end of file",
                                   end_empty_count, max_end))>>
                 ELSE <<>>)
             \o Flatten([i \in 1..n |->
                    IF ~is_blank(lines[i]) /\ consecutive_empty(lines, i - 1) > max_empty
                    THEN <<Problem_new(i - 1, 1, cfg.level, "empty-lines",
                              Message("too many blank lines",
                                      consecutive_empty(lines, i - 1), max_empty))>>
                    ELSE <<>>])

\* str::contains of a message of the rules and a pattern of EmptyLinesFix
contains(message, pattern) ==
    CASE pattern = "too many blank lines" ->
            message.text \in {"too many blank lines at beginning of file",
                              "too many blank lines at end of file",
                              "too many blank lines"}
      [] pattern = "at beginning" ->
            message.text = "too many blank lines at beginning of file"
      [] pattern = "at end" ->
            message.text \in {"too many blank lines at end of file",
                              "missing newline at end of file"}

\* the rules that FixEngine::new registers a fix for
FixEngine_new == {"trailing-spaces", "new-line-at-end-of-file", "empty-lines"}

\* a line of the content with the number it had when the Problems were reported
FixLine(from, line) == [from |-> from, line |-> line]

\* an empty line that a fix pushes
NewEmptyLine == FixLine(0, Line(0, -1, FALSE, NoComment))

\* content.to_string(): the content at the start of fix_problems
to_string(c) ==
    [lines |-> [i \in DOMAIN c.lines |-> FixLine(i, c.lines[i])], eol |-> c.eol]

\* the lines without their numbers
texts(lines) == [i \in DOMAIN lines |-> lines[i].line]

\* Vec::join("\n"): the content whose text is the lines with a newline between
\* them; an empty last line leaves that text ending with a newline, or empty
join(lines) ==
    IF lines = <<>> THEN [lines |-> <<>>, eol |-> FALSE]
    ELSE IF lines[Len(lines)].line.width = 0
    THEN [lines |-> SubSeq(lines, 1, Len(lines) - 1), eol |-> Len(lines) > 1]
    ELSE [lines |-> lines, eol |-> FALSE]

\* Vec::join("\n") and push('\n')
join_newline(lines) ==
    IF lines = <<>> THEN [lines |-> <<NewEmptyLine>>, eol |-> TRUE]
    ELSE [lines |-> lines, eol |-> TRUE]

\* TrailingSpacesFix::can_fix
TrailingSpacesFix_can_fix(problem) == problem.rule = "trailing-spaces"

\* TrailingSpacesFix::apply_fix
TrailingSpacesFix_apply_fix(c, problem) ==
    LET fixed_lines ==
            [i \in DOMAIN c.lines |->
                IF i = problem.line
                THEN FixLine(c.lines[i].from, trim_end(c.lines[i].line))
                ELSE c.lines[i]]
    IN  IF c.eol THEN join_newline(fixed_lines) ELSE join(fixed_lines)

\* NewLineAtEndOfFileFix::can_fix
NewLineAtEndOfFileFix_can_fix(problem) == problem.rule = "new-line-at-end-of-file"

\* NewLineAtEndOfFileFix::apply_fix
NewLineAtEndOfFileFix_apply_fix(c, problem) ==
    IF c.lines = <<>> /\ ~c.eol THEN c
    ELSE IF c.eol THEN c
    ELSE [c EXCEPT !.eol = TRUE]

\* EmptyLinesFix::can_fix
EmptyLinesFix_can_fix(problem) ==
    /\ problem.rule = "empty-lines"
    /\ \/ contains(problem.message, "too many blank lines")
       \/ contains(problem.message, "at beginning")
       \/ contains(problem.message, "at end")

\* EmptyLinesFix::apply_fix, the loop that reduces the blank lines in a row to 2
reduce_consecutive(lines) ==
    Flatten([i \in 1..Len(lines) |->
        IF is_blank(lines[i].line) /\ consecutive_empty(texts(lines), i) > 2
        THEN <<>> ELSE <<lines[i]>>])

\* EmptyLinesFix::apply_fix
EmptyLinesFix_apply_fix(c, problem) ==
    LET lines == c.lines
        n == Len(lines)
        nonblank == {i \in 1..n : ~is_blank(lines[i].line)}
        start_index == IF nonblank = {} THEN 1 ELSE Min(nonblank)
        end_index == IF nonblank = {} THEN n ELSE Max(nonblank)
        empty_count == IF nonblank = {} THEN n ELSE n - Max(nonblank)
    IN  IF contains(problem.message, "at beginning")
        THEN join(SubSeq(lines, start_index, n))
        ELSE IF contains(problem.message, "at end") /\ empty_count > 1
        THEN join(SubSeq(lines, 1, end_index)
                  \o (IF end_index < n THEN <<NewEmptyLine>> ELSE <<>>))
        ELSE IF contains(problem.message, "too many blank lines")
        THEN join(reduce_consecutive(lines))
        ELSE c

\* AutoFix::can_fix of the fix registered for the rule
can_fix(rule_id, problem) ==
    CASE rule_id = "trailing-spaces" -> TrailingSpacesFix_can_fix(problem)
      [] rule_id = "new-line-at-end-of-file" -> NewLineAtEndOfFileFix_can_fix(problem)
      [] rule_id = "empty-lines" -> EmptyLinesFix_can_fix(problem)

\* AutoFix::apply_fix of the fix registered for the rule
apply_fix(rule_id, c, problem) ==
    CASE rule_id = "trailing-spaces" -> TrailingSpacesFix_apply_fix(c, problem)
      [] rule_id = "new-line-at-end-of-file" -> NewLineAtEndOfFileFix_apply_fix(c, problem)
      [] rule_id = "empty-lines" -> EmptyLinesFix_apply_fix(c, problem)

\* rule_ids.sort(): the rules of the Problems in the order of their names
rule_ids(problems) ==
    SelectSeq(<<"empty-lines", "line-length", "new-line-at-end-of-file", "trailing-spaces">>,
              LAMBDA rule_id : \E i \in DOMAIN problems : problems[i].rule = rule_id)

\* sorted_problems.sort_by(|a, b| b.line.cmp(&a.line)): a stable sort
RECURSIVE sort_by_line_reversed(_)
sort_by_line_reversed(problems) ==
    IF problems = <<>> THEN <<>>
    ELSE LET sorted == sort_by_line_reversed(SubSeq(problems, 1, Len(problems) - 1))
             p == problems[Len(problems)]
             k == Cardinality({j \in 1..Len(sorted) : sorted[j].line >= p.line})
         IN  SubSeq(sorted, 1, k) \o <<p>> \o SubSeq(sorted, k + 1, Len(sorted))

\* fix_problems: the Problems in the order in which its two loops reach them,
\* rule after rule, those of a rule without a registered fix left out
fix_order(problems) ==
    LET ids == rule_ids(problems)
    IN  Flatten([r \in DOMAIN ids |->
            IF ids[r] \in FixEngine_new
            THEN sort_by_line_reversed(SelectSeq(problems, LAMBDA p : p.rule = ids[r]))
            ELSE <<>>])

\* the lines of the contents that are fixed: "key: v", "key: v  ", "" and "  "
FixLines ==
    { Line(6, -1, TRUE, NoComment),
      Line(8, 6, TRUE, NoComment),
      Line(0, -1, FALSE, NoComment),
      Line(2, 0, TRUE, NoComment) }

\* the contents that are fixed: a text whose last line is empty ends with the
\* newline that ends this line
FixContents ==
    {c \in Contents(FixLines, MaxFixLines) :
        c.lines # <<>> /\ c.lines[Len(c.lines)].width = 0 => c.eol}

\* a configuration that enables some of the rules with a registered fix
Config_fixable(enabled) ==
    [rules |-> [rule_id \in FixEngine_new |->
                   [(IF rule_id = "empty-lines" THEN EmptyLinesRule_default_config
                     ELSE default_config(rule_id)) EXCEPT !.enabled = rule_id \in enabled]],
     ignore |-> default_ignore, yaml_files |-> default_yaml_files]

\* the Problems that a linter with these rules reports on the content
reported(c, cfg) ==
    sort(TrailingSpacesRule_check(c, cfg.rules["trailing-spaces"])
         \o NewLineAtEndOfFileRule_check(c, cfg.rules["new-line-at-end-of-file"])
         \o EmptyLinesRule_check(c, cfg.rules["empty-lines"]))

\* no Problem has been fixed
NoFixing == [some |-> FALSE, problem |-> Problem_new(0, 0, "Error", "", Message("", 0, 0)),
             found |-> 0]

\* no fix_problems runs
NoFix ==
    /\ fixed_content = [lines |-> <<>>, eol |-> FALSE]
    /\ pending = <<>>
    /\ fixing = NoFixing

\* ------------------------------------------------------ the language server

\* the texts of the document: a line without a Problem and a line with
\* trailing spaces
LspTexts ==
    { [lines |-> <<Line(60, -1, TRUE, NoComment)>>, eol |-> TRUE],
      [lines |-> <<Line(60, 57, TRUE, NoComment)>>, eol |-> TRUE] }

\* a notification that carries no text
NoText == [lines |-> <<>>, eol |-> FALSE]

\* u32::saturating_sub
saturating_sub(a, b) == IF a > b THEN a - b ELSE 0

\* YlLanguageServer::problems_to_diagnostics
problems_to_diagnostics(problems) ==
    [i \in DOMAIN problems |->
        [range |->
            [start |-> [line |-> saturating_sub(problems[i].line, 1),
                        character |-> saturating_sub(problems[i].column, 1)],
             end |-> [line |-> saturating_sub(problems[i].line, 1),
                      character |-> problems[i].column]],
         severity |-> CASE problems[i].level = "Error" -> "ERROR"
                        [] problems[i].level = "Warning" -> "WARNING"
                        [] problems[i].level = "Info" -> "INFORMATION",
         code |-> problems[i].rule,
         source |-> "yl",
         message |-> problems[i].message]]

\* HashMap::new() and HashMap::remove, for the one Url
NoDocument == [some |-> FALSE, text |-> NoText]

\* HashMap::insert, for the one Url
Document(text) == [some |-> TRUE, text |-> text]

\* a handler that has been called: the notification, the await it is at, and
\* the diagnostics it is about to publish
Handler(kind, text) == [kind |-> kind, text |-> text, at |-> "document_map", diagnostics |-> <<>>]

\* nothing has been published for the Url
NotPublished == [some |-> FALSE, diagnostics |-> <<>>]

\* the client has the document open: its last didOpen or didClose is a didOpen
client_open(called) ==
    LET oc == {i \in DOMAIN called : called[i].kind \in {"did_open", "did_close"}}
    IN  oc # {} /\ called[Max(oc)].kind = "did_open"

\* no language server runs
NoLsp ==
    /\ document_map = NoDocument
    /\ handlers = <<>>
    /\ published = NotPublished

\* ----------------------------------------------------- Problems compared

\* the Problems that are compared
ProblemSamples ==
    {Problem_new(line, 1, level, rule, Message(rule, 0, 0)) :
        line \in {1, 2}, level \in {"Warning", "Error"}, rule \in {LL, TS}}

\* no comparison has been made
NoComparison == [some |-> FALSE, a |-> 0, b |-> 0, ordering |-> 0, eq |-> FALSE]

\* nothing runs apart from the linter
NoMore == compared = NoComparison /\ NoFix /\ NoLsp

\* ---------------------------------------------------------------- actions

\* Linter::lint_content is entered with a content and the linter's config
Init ==
    /\ content \in Contents(LintLines, MaxLines)
    /\ config \in Configs
    /\ pc = "lint_content"
    /\ line_number = 0
    /\ inline_config = InlineConfigManager_new
    /\ order = <<>>
    /\ all_problems = <<>>
    /\ result = Pending
    /\ rules_run = {}
    /\ earlier_calls = 0
    /\ left_behind = FALSE
    /\ NoBatch
    /\ NoMore

\* InlineConfigManager::process_file is entered with a content
InitInline ==
    /\ content \in {c \in Contents(InlineLines, MaxInlineLines) : ~c.eol}
    /\ config = Config_default
    /\ pc = "lint_content"
    /\ line_number = 0
    /\ inline_config = InlineConfigManager_new
    /\ order = <<>>
    /\ all_problems = <<>>
    /\ result = Pending
    /\ rules_run = {}
    /\ earlier_calls = 0
    /\ left_behind = FALSE
    /\ NoBatch
    /\ NoMore

\* InlineConfigManager::process_file is entered with a content, on a manager
\* that later calls use again
InitReuse ==
    /\ content \in ReuseContents
    /\ config = Config_default
    /\ pc = "lint_content"
    /\ line_number = 0
    /\ inline_config = InlineConfigManager_new
    /\ order = <<>>
    /\ all_problems = <<>>
    /\ result = Pending
    /\ rules_run = {}
    /\ earlier_calls = 0
    /\ left_behind = FALSE
    /\ NoBatch
    /\ NoMore

\* lint_content lines 49-54 and process_file line 40: the manager is created
\* and reset
StartFile ==
    /\ pc = "lint_content"
    /\ inline_config' = reset(InlineConfigManager_new)
    /\ pc' = "process_file"
    /\ UNCHANGED <<content, config, line_number, order, all_problems, result, rules_run>>
    /\ UNCHANGED <<reuse_vars, batch_vars, more_vars>>

\* one iteration of process_file's loop; a failing line makes lint_content
\* return the error
ProcessLine ==
    /\ pc = "process_file"
    /\ line_number < Len(content.lines)
    /\ LET step == process_line(inline_config, line_number + 1, content.lines[line_number + 1])
       IN  /\ inline_config' = step.m
           /\ line_number' = line_number + 1
           /\ IF step.ok
              THEN UNCHANGED <<pc, result>>
              ELSE pc' = "done" /\ result' = Err("DirectiveParse", "", NoPath)
    /\ UNCHANGED <<content, config, order, all_problems, rules_run, reuse_vars, batch_vars, more_vars>>

\* process_file returned Ok: lint_content lines 56-59
CheckFileIgnored ==
    /\ pc = "process_file"
    /\ line_number = Len(content.lines)
    /\ IF is_file_ignored(inline_config)
       THEN pc' = "done" /\ result' = Ok(<<>>)
       ELSE pc' = "rules" /\ UNCHANGED result
    /\ UNCHANGED <<content, config, line_number, inline_config, order, all_problems, rules_run>>
    /\ UNCHANGED <<reuse_vars, batch_vars, more_vars>>

\* one iteration of the loop over registry.rules(), which hands out the rules
\* in the HashMap's order; the iteration on the last rule runs into the sort
\* and the return
RunRule(rule_id) ==
    /\ pc = "rules"
    /\ rule_id \notin Range(order)
    /\ order' = Append(order, rule_id)
    /\ rules_run' = IF resolve_rule_config(config, inline_config, rule_id).enabled
                    THEN rules_run \cup {rule_id} ELSE rules_run
    /\ LET step == run_rule(content, config, inline_config, all_problems, rule_id)
       IN  /\ all_problems' = step.all_problems
           /\ IF step.failed
              THEN pc' = "done" /\ result' = Err("InvalidConfiguration", rule_id, NoPath)
              ELSE IF Range(order') = registry_rules
              THEN pc' = "done" /\ result' = Ok(sort(step.all_problems))
              ELSE UNCHANGED <<pc, result>>
    /\ UNCHANGED <<content, config, line_number, inline_config, reuse_vars, batch_vars, more_vars>>

Next ==
    \/ StartFile
    \/ ProcessLine
    \/ CheckFileIgnored
    \/ \E rule_id \in registry_rules : RunRule(rule_id)

Spec == Init /\ [][Next]_vars

NextInline ==
    \/ StartFile
    \/ ProcessLine

SpecInline == InitInline /\ [][NextInline]_vars

\* process_file is called again on the manager, after the call before it has
\* returned Ok or Err: line 40 resets the manager
ProcessFileAgain ==
    /\ pc = "done" \/ (pc = "process_file" /\ line_number = Len(content.lines))
    /\ earlier_calls < MaxCalls
    /\ earlier_calls' = earlier_calls + 1
    /\ left_behind' = (left_behind \/ inline_config # InlineConfigManager_new)
    /\ content' \in ReuseContents
    /\ inline_config' = reset(inline_config)
    /\ line_number' = 0
    /\ pc' = "process_file"
    /\ result' = Pending
    /\ UNCHANGED <<config, order, all_problems, rules_run, batch_vars, more_vars>>

\* lint_content has processed a content without comments and is at its loop
\* over the rules, on a linter with the whole registry and Config::default()
InitRegistry ==
    /\ content \in {c \in Contents(PlainLines, 1) : c.lines # <<>>}
    /\ config = Config_default_registry
    /\ pc = "registry"
    /\ line_number = Len(content.lines)
    /\ inline_config = InlineConfigManager_new
    /\ order = <<>>
    /\ all_problems = <<>>
    /\ result = Pending
    /\ rules_run = {}
    /\ earlier_calls = 0
    /\ left_behind = FALSE
    /\ NoBatch
    /\ NoMore

\* one iteration of the loop over registry.rules() with the whole registry
RunRegistryRule(rule_id) ==
    /\ pc = "registry"
    /\ rule_id \notin Range(order)
    /\ IF order = <<>> THEN TRUE ELSE rule_id = next_registered(order[Len(order)])
    /\ order' = Append(order, rule_id)
    /\ rules_run' = IF resolve_rule_config(config, inline_config, rule_id).enabled
                    THEN rules_run \cup {rule_id} ELSE rules_run
    /\ \E step \in {run_rule(content, config, inline_config, all_problems, rule_id)} :
           /\ all_problems' = step.all_problems
           /\ IF step.failed
              THEN pc' = "done" /\ result' = Err("InvalidConfiguration", rule_id, NoPath)
              ELSE IF Len(order') = Len(with_default_rules)
              THEN pc' = "done" /\ result' = Ok(sort(step.all_problems))
              ELSE UNCHANGED <<pc, result>>
    /\ UNCHANGED <<content, config, line_number, inline_config, reuse_vars, batch_vars, more_vars>>

NextRegistry == \E rule_id \in Range(with_default_rules) : RunRegistryRule(rule_id)

SpecRegistry == InitRegistry /\ [][NextRegistry]_vars

\* three Problems are at hand
InitOrder ==
    /\ all_problems \in [1..3 -> ProblemSamples]
    /\ compared = NoComparison
    /\ NoFix
    /\ NoLsp
    /\ pc = "cmp"
    /\ config = Config_default
    /\ content = [lines |-> <<>>, eol |-> FALSE]
    /\ line_number = 0
    /\ inline_config = InlineConfigManager_new
    /\ order = <<>>
    /\ result = Pending
    /\ rules_run = {}
    /\ earlier_calls = 0
    /\ left_behind = FALSE
    /\ NoBatch

\* the a-th Problem is compared with the b-th: a.cmp(&b) and a == b
Compare(a, b) ==
    /\ pc = "cmp"
    /\ compared' = [some |-> TRUE, a |-> a, b |-> b,
                    ordering |-> Problem_cmp(all_problems[a], all_problems[b]),
                    eq |-> Problem_eq(all_problems[a], all_problems[b])]
    /\ UNCHANGED <<config, pc, lint_vars, reuse_vars, batch_vars, fix_vars, lsp_vars>>

NextOrder == \E a \in 1..3, b \in 1..3 : Compare(a, b)

SpecOrder == InitOrder /\ [][NextOrder]_vars

\* a linter has reported on a content and fix_problems is entered with the
\* content and the Problems
InitFix ==
    /\ content \in FixContents
    /\ config \in {Config_fixable(enabled) : enabled \in SUBSET FixEngine_new}
    /\ all_problems = reported(content, config)
    /\ pc = "fix"
    /\ NoFix
    /\ NoLsp
    /\ compared = NoComparison
    /\ line_number = 0
    /\ inline_config = InlineConfigManager_new
    /\ order = <<>>
    /\ result = Pending
    /\ rules_run = {}
    /\ earlier_calls = 0
    /\ left_behind = FALSE
    /\ NoBatch

\* fix_problems copies the content, groups the Problems by rule and sorts the
\* rules
GroupProblems ==
    /\ pc = "fix"
    /\ fixed_content' = to_string(content)
    /\ pending' = fix_order(all_problems)
    /\ pc' = "fixes"
    /\ UNCHANGED <<config, lint_vars, reuse_vars, batch_vars, cmp_vars, lsp_vars, fixing>>

\* one iteration of the inner loop of fix_problems
ApplyFix ==
    /\ pc = "fixes"
    /\ pending # <<>>
    /\ \E problem \in {Head(pending)} :
          IF can_fix(problem.rule, problem)
          THEN /\ fixed_content' = apply_fix(problem.rule, fixed_content, problem)
               /\ fixing' = [some |-> TRUE, problem |-> problem,
                             found |-> IF problem.line \in DOMAIN fixed_content.lines
                                       THEN fixed_content.lines[problem.line].from
                                       ELSE 0]
          ELSE UNCHANGED <<fixed_content, fixing>>
    /\ pending' = Tail(pending)
    /\ UNCHANGED <<config, pc, lint_vars, reuse_vars, batch_vars, cmp_vars, lsp_vars>>

\* fix_problems returns Ok(fixed_content)
ReturnFixed ==
    /\ pc = "fixes"
    /\ pending = <<>>
    /\ pc' = "fixed"
    /\ UNCHANGED <<config, lint_vars, reuse_vars, batch_vars, more_vars>>

NextFix ==
    \/ GroupProblems
    \/ ApplyFix
    \/ ReturnFixed

SpecFix == InitFix /\ [][NextFix]_vars

\* YlLanguageServer::new: a linter with Config::default() and an empty
\* document_map
InitLsp ==
    /\ config = Config_default
    /\ pc = "lsp"
    /\ NoLsp
    /\ NoFix
    /\ compared = NoComparison
    /\ content = [lines |-> <<>>, eol |-> FALSE]
    /\ line_number = 0
    /\ inline_config = InlineConfigManager_new
    /\ order = <<>>
    /\ all_problems = <<>>
    /\ result = Pending
    /\ rules_run = {}
    /\ earlier_calls = 0
    /\ left_behind = FALSE
    /\ NoBatch

\* the client sends a notification about the Url and the server calls its
\* handler, which runs beside the handlers that have not returned
Receive(kind, text) ==
    /\ pc = "lsp"
    /\ Len(handlers) < MaxMessages
    /\ IF kind = "did_open" THEN ~client_open(handlers) ELSE client_open(handlers)
    /\ IF kind \in {"did_open", "did_change"} THEN text \in LspTexts ELSE text = NoText
    /\ handlers' = Append(handlers, Handler(kind, text))
    /\ UNCHANGED <<config, pc, lint_vars, reuse_vars, batch_vars, cmp_vars, fix_vars,
                   document_map, published>>

\* did_open and did_change: document_map.lock().await.insert(uri, content)
Insert(i) ==
    /\ pc = "lsp"
    /\ handlers[i].kind \in {"did_open", "did_change"}
    /\ handlers[i].at = "document_map"
    /\ document_map' = Document(handlers[i].text)
    /\ handlers' = [handlers EXCEPT ![i].at = "linter"]
    /\ UNCHANGED <<config, pc, lint_vars, reuse_vars, batch_vars, cmp_vars, fix_vars, published>>

\* did_save: document_map.lock().await.get(&uri).cloned()
Get(i) ==
    /\ pc = "lsp"
    /\ handlers[i].kind = "did_save"
    /\ handlers[i].at = "document_map"
    /\ handlers' = IF document_map.some
                   THEN [handlers EXCEPT ![i].text = document_map.text, ![i].at = "linter"]
                   ELSE [handlers EXCEPT ![i].at = "returned"]
    /\ UNCHANGED <<config, pc, lint_vars, reuse_vars, batch_vars, cmp_vars, fix_vars,
                   document_map, published>>

\* did_close: document_map.lock().await.remove(&uri)
Remove(i) ==
    /\ pc = "lsp"
    /\ handlers[i].kind = "did_close"
    /\ handlers[i].at = "document_map"
    /\ document_map' = NoDocument
    /\ handlers' = [handlers EXCEPT ![i].at = "publish_diagnostics"]
    /\ UNCHANGED <<config, pc, lint_vars, reuse_vars, batch_vars, cmp_vars, fix_vars, published>>

\* lint_and_publish: linter.lock().await, lint_content, drop(linter),
\* problems_to_diagnostics
LintDocument(i) ==
    /\ pc = "lsp"
    /\ handlers[i].at = "linter"
    /\ \E ord \in RegistryOrders :
          \E linted \in {lint_content(handlers[i].text, config, ord)} :
             handlers' = IF linted.ok
                         THEN [handlers EXCEPT
                                  ![i].diagnostics = problems_to_diagnostics(linted.problems),
                                  ![i].at = "publish_diagnostics"]
                         ELSE [handlers EXCEPT ![i].at = "returned"]
    /\ UNCHANGED <<config, pc, lint_vars, reuse_vars, batch_vars, cmp_vars, fix_vars,
                   document_map, published>>

\* client.publish_diagnostics(uri, diagnostics, None).await, of lint_and_publish
\* and of did_close
Publish(i) ==
    /\ pc = "lsp"
    /\ handlers[i].at = "publish_diagnostics"
    /\ published' = [some |-> TRUE, diagnostics |-> handlers[i].diagnostics]
    /\ handlers' = [handlers EXCEPT ![i].at = "returned"]
    /\ UNCHANGED <<config, pc, lint_vars, reuse_vars, batch_vars, cmp_vars, fix_vars, document_map>>

NextLsp ==
    \/ \E kind \in {"did_open", "did_change", "did_save", "did_close"},
          text \in LspTexts \cup {NoText} : Receive(kind, text)
    \/ \E i \in DOMAIN handlers : Insert(i)
    \/ \E i \in DOMAIN handlers : Get(i)
    \/ \E i \in DOMAIN handlers : Remove(i)
    \/ \E i \in DOMAIN handlers : LintDocument(i)
    \/ \E i \in DOMAIN handlers : Publish(i)

SpecLsp == InitLsp /\ [][NextLsp]_vars

NextReuse ==
    \/ StartFile
    \/ ProcessLine
    \/ ProcessFileAgain

SpecReuse == InitReuse /\ [][NextReuse]_vars

\* Linter::lint_paths is entered with paths, on a linter with the default
\* configuration
InitPaths ==
    /\ paths \in UNION {[1..k -> PathInputs] : k \in 1..MaxPaths}
    /\ fs \in FileSystems
    /\ config = Config_default
    /\ pc = "lint_paths"
    /\ file_paths = <<>>
    /\ outcomes = <<>>
    /\ saved_error = NoSavedError
    /\ results = BatchPending
    /\ content = [lines |-> <<>>, eol |-> FALSE]
    /\ line_number = 0
    /\ inline_config = InlineConfigManager_new
    /\ order = <<>>
    /\ all_problems = <<>>
    /\ result = Pending
    /\ rules_run = {}
    /\ earlier_calls = 0
    /\ left_behind = FALSE
    /\ NoMore

\* lint_paths lines 110-137: the paths are expanded into file_paths, or the
\* first path that is neither a file nor a directory makes lint_paths return
CollectFilePaths ==
    /\ pc = "lint_paths"
    /\ LET expanded == expand(config, fs, paths, 1, <<>>)
       IN  IF expanded.ok
           THEN /\ file_paths' = expanded.file_paths
                /\ outcomes' = [i \in DOMAIN expanded.file_paths |-> Pending]
                /\ pc' = "parallel"
                /\ UNCHANGED results
           ELSE /\ results' = BatchErr(Err("PathNotFound", "", expanded.path))
                /\ pc' = "done"
                /\ UNCHANGED <<file_paths, outcomes>>
    /\ UNCHANGED <<config, lint_vars, reuse_vars, paths, fs, saved_error>>
    /\ UNCHANGED more_vars

\* the closure of lint_files_parallel on one file, on some worker: a linter
\* with a registry of its own lints the file; the first error is saved
LintFile(i, ord) ==
    /\ pc = "parallel"
    /\ outcomes[i] = Pending
    /\ \E returned \in {lint_file(config, fs, file_paths[i], ord)} :
           /\ outcomes' = [outcomes EXCEPT ![i] = returned]
           /\ saved_error' = IF ~returned.ok /\ ~saved_error.some
                             THEN SavedError(returned) ELSE saved_error
    /\ UNCHANGED <<config, pc, lint_vars, reuse_vars, paths, fs, file_paths, results>>
    /\ UNCHANGED more_vars

\* the collection ends, when every file has been linted or, on an error, with
\* files left out
Collect ==
    /\ pc = "parallel"
    /\ saved_error.some \/ \A i \in DOMAIN outcomes : outcomes[i] # Pending
    /\ results' = collect(file_paths, outcomes, saved_error)
    /\ pc' = "done"
    /\ UNCHANGED <<config, lint_vars, reuse_vars, paths, fs, file_paths, outcomes, saved_error>>
    /\ UNCHANGED more_vars

NextPaths ==
    \/ CollectFilePaths
    \/ \E i \in DOMAIN file_paths, ord \in RegistryOrders : LintFile(i, ord)
    \/ Collect

SpecPaths == InitPaths /\ [][NextPaths]_vars

\* ----------------------------------------------------------------- claims

ReturnedOk == pc = "done" /\ result.ok

\* process_file has gone through some lines without failing
Processing == pc = "process_file"

\* process_file has returned Ok
Processed == pc = "process_file" /\ line_number = Len(content.lines)

\* the lines and rule ids is_rule_disabled is queried with
QueryLines == 0..(Len(content.lines) + 1)
QueryRules == registry_rules \cup {"key-duplicates"}

\* the directive parsed from line n of the content (NoDirective when none)
DirectiveAt(n) ==
    IF ~content.lines[n].comment.yl THEN NoDirective
    ELSE CHOOSE d \in {parsed.directive : parsed \in {parse_directive(content.lines[n].comment)}} : TRUE

DirectiveLines == {n \in 1..Len(content.lines) : DirectiveAt(n).type # "None"}

SeverityOrder == <<"Info", "Warning", "Error">>
Severity(l) == CHOOSE i \in 1..Len(SeverityOrder) : SeverityOrder[i] = l

\* (line, column, severity) of p is lexicographically <= that of q
KeyLeq(p, q) ==
    \/ p.line < q.line
    \/ p.line = q.line /\ p.column < q.column
    \/ p.line = q.line /\ p.column = q.column /\ Severity(p.level) <= Severity(q.level)

\* C1: whenever lint_content returns Ok, each adjacent pair of the returned
\* Problems is in non-decreasing (line, column, severity) order.
C1_Sorted ==
    ReturnedOk =>
        \A i \in 1..(Len(result.problems) - 1) :
            KeyLeq(result.problems[i], result.problems[i + 1])

\* lint_content returned three or more Problems that the rules had pushed in
\* another order than the returned one
C1_Witness ==
    /\ ReturnedOk
    /\ Len(result.problems) >= 3
    /\ all_problems # result.problems

\* the Problems that rule x's check yields under its resolved configuration
Checked(x) == check(x, content, resolve_rule_config(config, inline_config, x))

\* C2: a `disable rule-x` on line N, the only directive of the file, suppresses
\* rule-x Problems on the lines from N on and on no line before N: every
\* rule-x Problem of a line L < N is still returned.
C2_DisableNotRetroactive ==
    ReturnedOk =>
        \A N \in DirectiveLines, x \in registry_rules :
            (/\ DirectiveLines = {N}
             /\ DirectiveAt(N).type = "Disable"
             /\ x \in Range(DirectiveAt(N).rules))
            => /\ \A i \in DOMAIN result.problems :
                    result.problems[i].rule = x => result.problems[i].line < N
               /\ \A i \in DOMAIN Checked(x) :
                    Checked(x)[i].line < N => Checked(x)[i] \in Range(result.problems)

\* the content without the comment of its line n
WithoutComment(n) == [content EXCEPT !.lines[n].comment = NoComment]

\* C3: a `disable-line` on line N makes is_rule_disabled true at line N for the
\* listed rules (for every rule when no rule is listed); for every other line,
\* and at line N for every rule it does not list, is_rule_disabled is what it
\* would be without the directive.
C3_DisableLineOnlyItsLine ==
    Processed =>
        \A N \in DirectiveLines :
            DirectiveAt(N).type = "DisableLine" =>
                LET listed == DirectiveAt(N).rules
                    absent == process_file(InlineConfigManager_new, WithoutComment(N)).m
                IN  \A r \in QueryRules, l \in QueryLines :
                        IF l = N /\ (listed = <<>> \/ r \in Range(listed))
                        THEN is_rule_disabled(inline_config, r, l)
                        ELSE is_rule_disabled(inline_config, r, l)
                                = is_rule_disabled(absent, r, l)

\* a `disable-line line-length` on the middle line of three disables
\* line-length there, and neither on the lines around it nor another rule
C3_Witness ==
    /\ Processed
    /\ Len(content.lines) = 3
    /\ DirectiveAt(2).type = "DisableLine"
    /\ DirectiveAt(2).rules = <<LL>>
    /\ is_rule_disabled(inline_config, LL, 2)
    /\ ~is_rule_disabled(inline_config, LL, 1)
    /\ ~is_rule_disabled(inline_config, LL, 3)
    /\ ~is_rule_disabled(inline_config, TS, 2)

\* the line holds a `# yl:ignore-file` comment
HoldsIgnoreFile(line) ==
    line.comment.hash /\ line.comment.yl /\ line.comment.verb = <<"ignore", "-file">>

\* the line holds a `# yl:set` whose arguments lack the rule.param=value shape
HoldsMalformedSet(line) ==
    /\ line.comment.hash /\ line.comment.yl /\ line.comment.verb = <<"set">>
    /\ \A i \in DOMAIN line.comment.args :
          LET seg == line.comment.args[i]
          IN  ~(seg.name # "" /\ seg.dot /\ seg.key # "" /\ seg.eq /\ seg.val # "")

IgnoreFileLines == {n \in 1..Len(content.lines) : HoldsIgnoreFile(content.lines[n])}
MalformedSetLines == {n \in 1..Len(content.lines) : HoldsMalformedSet(content.lines[n])}

\* C4: a content with `# yl:ignore-file` on any line makes lint_content return
\* Ok with no Problem, whatever else the content holds before or after it.
C4_IgnoreFileWhateverElse ==
    (pc = "done" /\ IgnoreFileLines # {}) => result = Ok(<<>>)

\* C5: a content with a malformed `# yl:set` makes process_file fail at the
\* first such line and lint_content return an error, never a Problem list.
C5_MalformedSetFails ==
    (pc = "done" /\ MalformedSetLines # {}) =>
        /\ ~result.ok
        /\ result.err = "DirectiveParse"
        /\ result.problems = <<>>
        /\ line_number = Min(MalformedSetLines)

\* lint_content failed on a malformed `# yl:set` on the second line of a file
\* whose first line is too long
C5_Witness ==
    /\ pc = "done"
    /\ ~result.ok
    /\ result.err = "DirectiveParse"
    /\ line_number = 2
    /\ content.lines[1].width > default_max
    /\ ~content.lines[1].comment.hash
    /\ HoldsMalformedSet(content.lines[2])

\* C6: the Problem list lint_content returns is the one it returns on the same
\* content and configuration with a registry that hands out its rules in any
\* other order.
C6_SameListInAnyRegistryOrder ==
    ReturnedOk =>
        \A o \in RegistryOrders :
            lint_content(content, config, o).ok
                => lint_content(content, config, o).problems = result.problems

\* the param names written by the directives of the contents
ParamKeys == {"max", "allow-non-breakable-words", "bogus", "enabled", "level"}

\* the directives of the lines processed so far
DirectivesSoFar == [n \in 1..line_number |-> DirectiveAt(n)]

\* the lines among them whose directive writes param k of rule r
SettingLinesOf(at, r, k) ==
    {n \in DOMAIN at :
        /\ at[n].type \in {"Set", "Config"}
        /\ at[n].rule = r
        /\ k \in DOMAIN at[n].params}

SettingLines(r, k) == SettingLinesOf(DirectivesSoFar, r, k)

\* C7: the override get_rule_config returns for a rule holds, for each param,
\* the value of the last `set` / `config` directive in line order that writes
\* that param of that rule, and holds no param that no directive wrote;
\* lint_content resolves the rule's config to that value and line-length
\* reports against it.
C7_LastSettingWins ==
    LET at == DirectivesSoFar
    IN  IF \A n \in DOMAIN at : at[n].type \notin {"Set", "Config"}
        THEN inline_config.active_configs = EmptyMap
        ELSE \A r \in QueryRules :
                LET held == inline_get_rule_config(inline_config, r, line_number)
                IN  \A k \in ParamKeys :
                        LET S == SettingLinesOf(at, r, k)
                        IN  IF S = {}
                            THEN ~(held.some /\ k \in DOMAIN held.config.params)
                            ELSE LET last == parse_config_value(at[Max(S)].params[k])
                                 IN  /\ held.some
                                     /\ k \in DOMAIN held.config.params
                                     /\ held.config.params[k] = last
                                     /\ (pc = "rules" \/ ReturnedOk) =>
                                            resolve_rule_config(config, inline_config, r).params[k]
                                                = last
                                     /\ (ReturnedOk /\ r = LL /\ k = "max" /\ last.t = "Int") =>
                                            \A i \in DOMAIN result.problems :
                                                result.problems[i].rule = LL
                                                    => result.problems[i].column = last.i + 1

\* two `set line-length.max` lines with different values, and a line-length
\* Problem reported against the second value
C7_Witness ==
    /\ ReturnedOk
    /\ Len(content.lines) = 2
    /\ SettingLines(LL, "max") = {1, 2}
    /\ DirectiveAt(1).params["max"] = "120"
    /\ DirectiveAt(2).params["max"] = "50"
    /\ \E i \in DOMAIN result.problems :
          result.problems[i].rule = LL /\ result.problems[i].column = 51

\* the directive d disables rule X somewhere
Disables(d, X) ==
    \/ d.type = "IgnoreFile"
    \/ d.type \in {"Disable", "DisableLine", "IgnoreSection"}
         /\ (d.rules = <<>> \/ X \in Range(d.rules))

\* C8: when `disable X` on line A is followed by `enable X` on a later line B
\* and no other line disables X, is_rule_disabled(X, L) is false after
\* process_file for every line L, the lines between A and B included.
C8_EnableClearsEveryLine ==
    Processed =>
        \A X \in QueryRules, A \in DirectiveLines, B \in DirectiveLines :
            ( /\ A < B
              /\ DirectiveAt(A).type = "Disable" /\ X \in Range(DirectiveAt(A).rules)
              /\ DirectiveAt(B).type = "Enable" /\ X \in Range(DirectiveAt(B).rules)
              /\ \A n \in DirectiveLines \ {A} : ~Disables(DirectiveAt(n), X) )
            => \A L \in QueryLines : ~is_rule_disabled(inline_config, X, L)

\* `disable line-length`, a line without directive, `enable line-length`:
\* line-length is not disabled on the line in between
C8_Witness ==
    /\ Processed
    /\ Len(content.lines) = 3
    /\ DirectiveAt(1).type = "Disable" /\ DirectiveAt(1).rules = <<LL>>
    /\ DirectiveAt(2).type = "None"
    /\ DirectiveAt(3).type = "Enable" /\ DirectiveAt(3).rules = <<LL>>
    /\ ~is_rule_disabled(inline_config, LL, 2)

\* the line-disabled set of line l, empty when the line has none
LineDisabled(l) ==
    IF l \in DOMAIN inline_config.line_disabled_rules
    THEN inline_config.line_disabled_rules[l]
    ELSE {}

\* C9: is_rule_disabled(r, l) is true exactly when the file is ignored, or the
\* line-disabled set of l, the block-disabled set or the section-disabled set
\* contains "*" or r.
C9_DisabledIffOneOfFour ==
    \A r \in QueryRules, l \in QueryLines :
        is_rule_disabled(inline_config, r, l)
            <=> \/ inline_config.file_ignored
                \/ {"*", r} \cap LineDisabled(l) # {}
                \/ {"*", r} \cap inline_config.disabled_rules # {}
                \/ {"*", r} \cap inline_config.current_section_rules # {}

\* line-length is disabled on line 2 alone by its line set while
\* trailing-spaces is disabled everywhere by the section set alone
C9_Witness ==
    /\ ~inline_config.file_ignored
    /\ inline_config.disabled_rules = {}
    /\ LL \in LineDisabled(2)
    /\ inline_config.current_section_rules = {TS}
    /\ is_rule_disabled(inline_config, LL, 2)
    /\ ~is_rule_disabled(inline_config, LL, 1)
    /\ is_rule_disabled(inline_config, TS, 1)
    /\ ~is_rule_disabled(inline_config, NL, 2)

\* the Problems of check for rule r that are not disabled, none when the
\* rule's resolved config is not enabled
Kept(r) ==
    IF resolve_rule_config(config, inline_config, r).enabled
    THEN SelectSeq(Checked(r), LAMBDA p : ~is_rule_disabled(inline_config, p.rule, p.line))
    ELSE <<>>

Count(seq, p) == Cardinality({i \in DOMAIN seq : seq[i] = p})

\* how many times p is among the Problems kept for the rules
RECURSIVE CountKept(_, _)
CountKept(rules, p) ==
    IF rules = {} THEN 0
    ELSE LET r == CHOOSE x \in rules : TRUE
         IN  Count(Kept(r), p) + CountKept(rules \ {r}, p)

\* C10: when lint_content returns Ok for a file that is not ignored, every
\* Problem occurs in the result as many times as it occurs among the Problems
\* of check of the enabled registry rules that are not disabled at their line.
C10_ResultIsKeptProblems ==
    (ReturnedOk /\ ~is_file_ignored(inline_config)) =>
        \A p \in Range(result.problems) \cup UNION {Range(Kept(r)) : r \in registry_rules} :
            Count(result.problems, p) = CountKept(registry_rules, p)

\* the result holds Problems of two rules while a Problem of check was dropped
C10_Witness ==
    /\ ReturnedOk
    /\ ~is_file_ignored(inline_config)
    /\ Cardinality({result.problems[i].rule : i \in DOMAIN result.problems}) >= 2
    /\ \E r \in registry_rules : Len(Kept(r)) < Len(Checked(r))

\* the configuration of rule r before any inline directive: the entry of the
\* base configuration when it has one, the rule's default_config otherwise
BaseConfig(r) == IF r \in DOMAIN config.rules THEN config.rules[r] ELSE default_config(r)

\* the params the inline directives have recorded for rule r
InlineParams(r) ==
    IF r \in DOMAIN inline_config.active_configs
    THEN inline_config.active_configs[r].params
    ELSE <<>>

Resolved(r) == resolve_rule_config(config, inline_config, r)

\* C11: whatever directives have been processed, the enabled flag and the
\* severity of each rule's resolved configuration are those of its base
\* configuration; a result holds no Problem of a rule disabled there, and every
\* Problem has its rule's base severity.
C11_InlineKeepsEnabledAndLevel ==
    \A r \in registry_rules :
        /\ Resolved(r).enabled = BaseConfig(r).enabled
        /\ Resolved(r).level = BaseConfig(r).level
        /\ ReturnedOk =>
              \A i \in DOMAIN result.problems :
                  result.problems[i].rule = r
                      => BaseConfig(r).enabled /\ result.problems[i].level = BaseConfig(r).level

\* new-line-at-end-of-file is disabled in the base configuration, a `config`
\* line writes enabled=true for it, the content has no final newline, and the
\* result has Problems but none of that rule
C11_Witness ==
    /\ ReturnedOk
    /\ ~BaseConfig(NL).enabled
    /\ "enabled" \in DOMAIN InlineParams(NL)
    /\ InlineParams(NL)["enabled"] = ConfigValue_Bool(TRUE)
    /\ ~content.eol
    /\ result.problems # <<>>
    /\ \A i \in DOMAIN result.problems : result.problems[i].rule # NL

\* C12: the params of a rule's resolved configuration are those of its base
\* entry when the base configuration has one (the default's params are not
\* merged in), of its default_config otherwise, with every inline param written
\* on top; line-length reports against the max so resolved.
C12_ResolvedConfigLayers ==
    \A r \in registry_rules :
        /\ DOMAIN Resolved(r).params = DOMAIN BaseConfig(r).params \cup DOMAIN InlineParams(r)
        /\ \A k \in DOMAIN Resolved(r).params :
              Resolved(r).params[k] =
                  IF k \in DOMAIN InlineParams(r) THEN InlineParams(r)[k]
                  ELSE BaseConfig(r).params[k]
        /\ (ReturnedOk /\ r = LL /\ "max" \notin DOMAIN InlineParams(LL)) =>
              \A i \in DOMAIN result.problems :
                  result.problems[i].rule = LL =>
                      result.problems[i].column =
                          (IF "max" \in DOMAIN BaseConfig(LL).params
                           THEN BaseConfig(LL).params["max"].i ELSE default_max) + 1

\* the base entry of line-length sets max alone, a `config` line writes two
\* other params: the resolved params are these three and a Problem is
\* reported against the entry's max
C12_Witness ==
    /\ ReturnedOk
    /\ config = Config_explicit
    /\ DOMAIN InlineParams(LL) = {"allow-non-breakable-words", "enabled"}
    /\ DOMAIN Resolved(LL).params = {"max", "allow-non-breakable-words", "enabled"}
    /\ \E i \in DOMAIN result.problems :
          result.problems[i].rule = LL /\ result.problems[i].column = 51

\* line-length is enabled and its resolved max is an integer <= 0
NonPositiveMax ==
    /\ Resolved(LL).enabled
    /\ "max" \in DOMAIN Resolved(LL).params
    /\ Resolved(LL).params["max"].t = "Int"
    /\ Resolved(LL).params["max"].i <= 0

\* C13: when the directives parse, the file is not ignored and line-length is
\* enabled with a resolved max <= 0, lint_content returns the configuration
\* error for line-length and no Problem, also when other rules have already
\* contributed Problems; it returns that error in no other case.
C13_ValidationFailureAbortsFile ==
    (pc = "done" /\ result.err # "DirectiveParse" /\ ~is_file_ignored(inline_config)) =>
        /\ NonPositiveMax =>
              /\ ~result.ok
              /\ result.err = "InvalidConfiguration"
              /\ result.rule = LL
              /\ result.problems = <<>>
        /\ result.err = "InvalidConfiguration" => NonPositiveMax

\* max=0 comes from a `config` line of the content; trailing-spaces had
\* already contributed a Problem when line-length was rejected
C13_Witness ==
    /\ pc = "done"
    /\ result.err = "InvalidConfiguration"
    /\ result.problems = <<>>
    /\ all_problems # <<>>
    /\ "max" \in DOMAIN InlineParams(LL)
    /\ BaseConfig(LL).params["max"].i > 0

\* C14: the error returned on a configuration validation failure names the
\* rule id and the path of the file being linted.
C14_ValidationErrorNamesRuleAndPath ==
    (pc = "done" /\ result.err = "InvalidConfiguration") =>
        /\ result.rule \in registry_rules
        /\ result.path = file_path

\* the content is one line of 95 characters without comment or trailing space
OneLineOf95 ==
    /\ Len(content.lines) = 1
    /\ content.lines[1].width = 95
    /\ content.lines[1].trail = -1
    /\ ~content.lines[1].comment.hash

\* the result is one line-length Problem at line 1, column 81, severity Error
OneLineLengthProblem ==
    /\ result.ok
    /\ Len(result.problems) = 1
    /\ result.problems[1].line = 1
    /\ result.problems[1].column = default_max + 1
    /\ result.problems[1].level = "Error"
    /\ result.problems[1].rule = LL

DirectiveVerbs ==
    { <<"disable">>, <<"disable", "-line">>, <<"enable">>, <<"set">>, <<"config">>,
      <<"ignore", "-file">>, <<"ignore", "-section">> }

\* an ordinary comment, or a `yl:` comment whose verb is not one of the seven
NotADirective(comment) == ~comment.yl \/ comment.verb \notin DirectiveVerbs

\* the lines processed so far that have a comment
CommentLines == {n \in 1..line_number : content.lines[n].comment.hash}

\* C18: parse_directive returns no directive, and no error, for an ordinary
\* comment and for a comment whose verb is not exactly one of the seven; while
\* the lines processed hold such comments only, the inline state is the one of
\* a new manager and process_file has not failed.
C18_OtherVerbsAreNoDirective ==
    /\ \A n \in CommentLines :
          NotADirective(content.lines[n].comment)
              => parse_directive(content.lines[n].comment) = ParsedNone
    /\ (\A n \in CommentLines : NotADirective(content.lines[n].comment))
          => inline_config = InlineConfigManager_new /\ pc # "done"

\* C19: in a process_file call made on a manager that earlier calls have used,
\* whether they returned Ok or failed part-way, the inline state after each
\* line is the one a new manager has after the same lines of the same content,
\* and the call fails exactly when it fails on a new manager.
C19_ProcessFileForgetsEarlierFiles ==
    (earlier_calls > 0) =>
        LET fresh == process_lines(InlineConfigManager_new, content.lines, 1)
            sofar == process_lines(InlineConfigManager_new,
                                   SubSeq(content.lines, 1, line_number), 1)
        IN  /\ inline_config = sofar.m
            /\ pc = "done" <=> ~sofar.ok
            /\ (pc = "done" \/ line_number = Len(content.lines)) =>
                  /\ inline_config = fresh.m
                  /\ pc = "done" <=> ~fresh.ok

\* a later call has gone through a content without directive on a manager on
\* which an earlier call had left state
C19_Witness ==
    /\ earlier_calls > 0
    /\ left_behind
    /\ pc = "process_file"
    /\ line_number = Len(content.lines)
    /\ Len(content.lines) = 2
    /\ \A n \in 1..2 : ~content.lines[n].comment.hash
    /\ inline_config = InlineConfigManager_new

\* ---------------------------------------------------------------- lint_paths

\* linting the file fails: its content cannot be read or a directive of it
\* does not parse
FailsToLint(f) == \E ord \in RegistryOrders : ~lint_file(config, fs, f, ord).ok

\* C15: when linting fails for some file of the expanded list, lint_paths
\* returns an error, the one that was saved first, which is the error of a file
\* of the list, and no entry for any file, linted or not; it returns Ok only
\* when no file of the list fails
C15_FailureAbortsBatch ==
    (pc = "done") =>
        /\ (\E i \in DOMAIN file_paths : FailsToLint(file_paths[i])) =>
              /\ ~results.ok
              /\ results.entries = <<>>
              /\ saved_error.some
              /\ results.error = saved_error.error
              /\ \E i \in DOMAIN file_paths : outcomes[i] = results.error
        /\ results.ok => \A i \in DOMAIN file_paths : ~FailsToLint(file_paths[i])

\* a.yaml was linted, with Problems, before b.yml failed: lint_paths returned
\* the error of b.yml and nothing for a.yaml
C15_Witness ==
    /\ pc = "done"
    /\ file_paths = <<P_a, P_b>>
    /\ outcomes[1].ok
    /\ outcomes[1].problems # <<>>
    /\ results = BatchErr(Err("DirectiveParse", "", NoPath))

\* C16: the Problems of an entry of lint_paths are the list that lint_file
\* returns for the file of the entry, on whatever linter lint_file is called
C16_EntryIsLintFileOnItsOwn ==
    (pc = "done" /\ results.ok) =>
        \A i \in DOMAIN results.entries : \A ord \in RegistryOrders :
            results.entries[i].problems = lint_file(config, fs, results.entries[i].path, ord).problems

\* f is a path below the directory dir
IsUnder(f, dir) == Len(f) > Len(dir) /\ SubSeq(f, 1, Len(dir)) = dir

\* the given path p makes lint_paths lint the file f
Contributes(p, f) ==
    \/ p = f
    \/ /\ p \in Directories
       /\ IsUnder(f, p)
       /\ ~Config_is_file_ignored(config, f)
       /\ Config_is_yaml_file(config, f)

\* C17: the entries of the result of lint_paths are regular files, and a file
\* has one entry for each given path that is the file itself or is a directory
\* the file is below, at any depth, when the file is not ignored and is a YAML
\* file
C17_EntriesAreTheExpansion ==
    (pc = "done" /\ results.ok) =>
        /\ \A i \in DOMAIN results.entries : results.entries[i].path \in DOMAIN fs
        /\ \A f \in DOMAIN fs :
              Cardinality({i \in DOMAIN results.entries : results.entries[i].path = f})
                  = Cardinality({k \in DOMAIN paths : Contributes(paths[k], f)})

\* proj and proj/notes.txt were given: the entries are a.yaml and sub/b.yml of
\* the directory, not its ignored or other files, and notes.txt as given
C17_Witness ==
    /\ pc = "done"
    /\ results.ok
    /\ paths = <<P_proj, P_notes>>
    /\ [i \in DOMAIN results.entries |-> results.entries[i].path] = <<P_a, P_b, P_notes>>

\* ------------------------------------------------------------- the registry

\* lint_content has gone through the whole registry
RegistryDone == pc = "done" /\ result.ok /\ Len(order) = Len(with_default_rules)

\* C21 as stated: under Config::default() the rules that lint_content runs are
\* line-length, with max 80, and trailing-spaces, and no other rule
C21_RunsTwoStyleRules ==
    RegistryDone =>
        /\ rules_run = {"line-length", "trailing-spaces"}
        /\ get_max_length(config.rules["line-length"]) = 80

\* C21: under Config::default() the rules that lint_content runs are
\* line-length, with max 80, trailing-spaces and yaml-syntax; every other
\* built-in rule is disabled and is not run
C21_RunsStyleRulesAndYamlSyntax ==
    /\ rules_run \subseteq {"line-length", "trailing-spaces", "yaml-syntax"}
    /\ RegistryDone =>
          /\ rules_run = {"line-length", "trailing-spaces", "yaml-syntax"}
          /\ get_max_length(config.rules["line-length"]) = 80
          /\ \A rule_id \in Range(with_default_rules) \ rules_run :
                ~Config_get_rule_config(config, rule_id).enabled

\* the registry handed out yaml-syntax first and the two style rules reported
\* on a line of 80 characters and 2 spaces
C21_Witness ==
    /\ RegistryDone
    /\ order[1] = "yaml-syntax"
    /\ "yaml-syntax" \in rules_run
    /\ Len(result.problems) = 2

\* ------------------------------------------------------ the order of Problems

\* a.cmp(&b) for the a-th and b-th Problem at hand
Cmp(a, b) == Problem_cmp(all_problems[a], all_problems[b])

\* C22: the comparison of Problems is total and transitive, and two Problems
\* compare Equal exactly when they are equal field by field
C22_OrderAgreesWithEquality ==
    /\ \A a, b \in DOMAIN all_problems : Cmp(a, b) = -Cmp(b, a)
    /\ \A a, b, c \in DOMAIN all_problems :
          (Cmp(a, b) <= 0 /\ Cmp(b, c) <= 0) => Cmp(a, c) <= 0
    /\ compared.some => (compared.ordering = 0 <=> compared.eq)

\* ------------------------------------------------------- enable and disable

\* the manager as process_file had it before the line it processed last
BeforeLastLine ==
    process_lines(InlineConfigManager_new, SubSeq(content.lines, 1, line_number - 1), 1).m

\* the line processed last holds a directive of this type
LastIs(type) == Processing /\ line_number >= 1 /\ DirectiveAt(line_number).type = type

\* C23: an `enable` without rules leaves the block set and the section set
\* empty, so that a rule is disabled afterwards only by ignore-file or by the
\* line set of the line asked about; an `enable` with rules takes exactly these
\* rules out of both sets
C23_EnableEmptiesOrRemoves ==
    LastIs("Enable") =>
        \A before \in {BeforeLastLine} :
            IF DirectiveAt(line_number).rules = <<>>
            THEN /\ inline_config.disabled_rules = {}
                 /\ inline_config.current_section_rules = {}
                 /\ \A X \in QueryRules, L \in QueryLines :
                       is_rule_disabled(inline_config, X, L) =>
                           (inline_config.file_ignored \/ {"*", X} \cap LineDisabled(L) # {})
            ELSE /\ inline_config.disabled_rules =
                        before.disabled_rules \ Range(DirectiveAt(line_number).rules)
                 /\ inline_config.current_section_rules =
                        before.current_section_rules \ Range(DirectiveAt(line_number).rules)

\* `disable`, `ignore-section trailing-spaces`, `enable line-length`: the "*"
\* and trailing-spaces stay where they were
C23_Witness ==
    /\ LastIs("Enable")
    /\ line_number = 3
    /\ DirectiveAt(1).type = "Disable" /\ DirectiveAt(1).rules = <<>>
    /\ DirectiveAt(2).type = "IgnoreSection"
    /\ DirectiveAt(3).rules = <<LL>>
    /\ inline_config.disabled_rules = {"*"}
    /\ inline_config.current_section_rules = {TS}

\* the lines processed so far that hold a directive of this type
LinesSoFar(type) == {n \in 1..line_number : DirectiveAt(n).type = type}

\* C24: a `disable` with rules adds them to the block set and keeps what the
\* set held, one without rules leaves "*" alone in the set; as long as no
\* `enable` has been processed, every rule that a `disable` processed so far
\* names, every rule when one of them names none, is disabled at every line
C24_DisableAddsToTheSet ==
    /\ LastIs("Disable") =>
          \A before \in {BeforeLastLine} :
              IF DirectiveAt(line_number).rules = <<>>
              THEN inline_config.disabled_rules = {"*"}
              ELSE inline_config.disabled_rules =
                       before.disabled_rules \cup Range(DirectiveAt(line_number).rules)
    /\ (Processing /\ LinesSoFar("Enable") = {}) =>
          \A n \in LinesSoFar("Disable") : \A d \in {DirectiveAt(n)} :
              \A X \in IF d.rules = <<>> THEN QueryRules ELSE Range(d.rules) :
                  \A L \in QueryLines : is_rule_disabled(inline_config, X, L)

\* `disable` and then `disable line-length`: the set holds both "*" and
\* line-length
C24_Witness ==
    /\ LastIs("Disable")
    /\ line_number = 2
    /\ DirectiveAt(1).type = "Disable" /\ DirectiveAt(1).rules = <<>>
    /\ DirectiveAt(2).rules = <<LL>>
    /\ inline_config.disabled_rules = {"*", LL}

\* C26: after a `disable` without rules that is followed by no directive but
\* `enable` directives with rules, every rule, those named by an `enable`
\* included, is disabled at every line
C26_EnableRulesKeepsDisableAll ==
    Processing =>
        \A A \in LinesSoFar("Disable") :
            ( /\ DirectiveAt(A).rules = <<>>
              /\ \A n \in (A + 1)..line_number :
                    DirectiveAt(n).type \in {"None", "Enable"}
                    /\ (DirectiveAt(n).type = "Enable" => DirectiveAt(n).rules # <<>>) )
            => \A X \in QueryRules, L \in QueryLines : is_rule_disabled(inline_config, X, L)

\* `disable` and then `enable line-length`: line-length is still disabled
C26_Witness ==
    /\ Processed
    /\ Len(content.lines) = 2
    /\ DirectiveAt(1).type = "Disable" /\ DirectiveAt(1).rules = <<>>
    /\ DirectiveAt(2).type = "Enable" /\ DirectiveAt(2).rules = <<LL>>
    /\ is_rule_disabled(inline_config, LL, 2)
    /\ inline_config.disabled_rules = {"*"}

\* C27: a `disable-line` that has been processed on line N keeps its rules,
\* every rule when it names none, disabled at line N, whatever directives have
\* been processed after it
C27_DisableLineOutlivesEnable ==
    Processing =>
        \A N \in LinesSoFar("DisableLine"), X \in QueryRules :
            (DirectiveAt(N).rules = <<>> \/ X \in Range(DirectiveAt(N).rules))
                => is_rule_disabled(inline_config, X, N)

\* `disable-line` on line 1, then `enable` and `enable line-length`:
\* line-length is disabled at line 1 and at no other line
C27_Witness ==
    /\ Processed
    /\ Len(content.lines) = 3
    /\ DirectiveAt(1).type = "DisableLine" /\ DirectiveAt(1).rules = <<>>
    /\ DirectiveAt(2).type = "Enable" /\ DirectiveAt(2).rules = <<>>
    /\ DirectiveAt(3).type = "Enable" /\ DirectiveAt(3).rules = <<LL>>
    /\ is_rule_disabled(inline_config, LL, 1)
    /\ ~is_rule_disabled(inline_config, LL, 2)

\* ------------------------------------------------------------ disabled rules

\* the rules that the loop has come to and found with enabled = false
FoundDisabled ==
    {rule_id \in Range(order) : ~resolve_rule_config(config, inline_config, rule_id).enabled}

\* C28: a rule that the loop finds with enabled = false in its resolved config
\* is not run: lint_content does not fail over its config, whatever its params
\* are, and no Problem of the rule is accumulated or returned
C28_DisabledRuleIsSkipped ==
    (pc \in {"rules", "done"}) =>
        \A rule_id \in FoundDisabled :
            /\ rule_id \notin rules_run
            /\ ~(result.err = "InvalidConfiguration" /\ result.rule = rule_id)
            /\ \A i \in DOMAIN all_problems : all_problems[i].rule # rule_id
            /\ \A i \in DOMAIN result.problems : result.problems[i].rule # rule_id

\* line-length is disabled with max = 0 in the configuration: a content with
\* a long line that ends in spaces is linted and only trailing-spaces reports
C28_Witness ==
    /\ pc = "done"
    /\ result.ok
    /\ config = Config_disabled
    /\ LL \in FoundDisabled
    /\ ~validate_config(LL, resolve_rule_config(config, inline_config, LL))
    /\ \E n \in DOMAIN content.lines : content.lines[n].width > default_max
    /\ result.problems # <<>>

\* ------------------------------------------------------ the order of entries

\* the files of the given paths, path after path, each directory in the order
\* of its walk
FilesInInputOrder ==
    Flatten([k \in DOMAIN paths |-> expand_path(config, fs, paths[k]).file_paths])

\* C29: a result Ok of lint_paths has one entry per element of the expanded
\* file list, at the position of the element, the list being in the order of
\* the given paths and of the walk of each directory; the Problems of an entry
\* are those that the worker returned for the element at that position
C29_EntriesInFileListOrder ==
    (pc = "done" /\ results.ok) =>
        /\ file_paths = FilesInInputOrder
        /\ Len(results.entries) = Len(file_paths)
        /\ \A i \in DOMAIN file_paths :
              /\ results.entries[i].path = file_paths[i]
              /\ results.entries[i].problems = outcomes[i].problems

\* proj/sub and proj were given: sub/b.yml has two entries, the first and the
\* last, with the Problem of its long line in both
C29_Witness ==
    /\ pc = "done"
    /\ results.ok
    /\ paths = <<P_sub, P_proj>>
    /\ [i \in DOMAIN results.entries |-> results.entries[i].path] = <<P_b, P_a, P_b>>
    /\ results.entries[1].problems # <<>>
    /\ results.entries[2].problems = <<>>
    /\ results.entries[3].problems # <<>>

\* --------------------------------------------------- the order of the fixes

\* C25: when fix_problems applies the fix for a Problem, the line at the
\* Problem's line number in the content fixed so far is the line that the
\* Problem was reported on
C25_FixAtReportedLine ==
    fixing.some => fixing.found = fixing.problem.line

\* ------------------------------------------------------- a closed document

\* did_close has returned for the Url and no did_open arrived after it
Closed ==
    \E i \in DOMAIN handlers :
        /\ handlers[i].kind = "did_close"
        /\ handlers[i].at = "returned"
        /\ \A j \in DOMAIN handlers : j > i => handlers[j].kind # "did_open"

\* C30: once did_close has been handled for a Url and no later did_open has
\* arrived, document_map has no entry for the Url and the diagnostics
\* published last for it are the empty list, however the handlers interleave
C30_ClosedDocumentIsCleared ==
    Closed => ~document_map.some /\ published = [some |-> TRUE, diagnostics |-> <<>>]

====
